---------------------------- MODULE Spec2Model ----------------------------
(***************************************************************************)
(* A model of the WebGPU / WebGL2 memory benchmark: the two backends       *)
(* (BaseBenchmark, WebGPUMemoryBenchmark, WebGL2MemoryBenchmark) and the    *)
(* BenchmarkController that drives them.                                    *)
(*                                                                          *)
(* One action is one task of the browser's event loop, run to completion    *)
(* together with the microtasks it queues: a user command, the expiry of a  *)
(* loop's sleep timer, the settling of a pending WebGPU device request, a   *)
(* tick of a redraw interval timer.  An await of an already settled promise *)
(* never lets another task in, so it does not end an action.                *)
(*                                                                          *)
(* Memory is counted in units of 16 bytes (a 32-bit integer cannot hold     *)
(* 16,000 MiB in bytes); allocationSize * 1.1 is truncated to that unit.    *)
(***************************************************************************)
EXTENDS Integers, Sequences, FiniteSets, TLC

\* ------------------------------------------------------------------ bounds

\* Resources (buffers + textures) a device accepts before it rejects every
\* further creation, in the specification Spec.
MaxRes == 5
\* User commands that take effect (a start that passes its guard, a
\* switchAPI click, a clearMemory), after the switch initializeAPI makes.
MaxCmds == 3
\* clearMemory commands among them.
MaxClears == 1
\* Failures the environment may inject (native creation, context or device
\* acquisition, renderer.clear).
MaxFails == 1

\* ------------------------------------------------------- program constants

\* 1024 * 1024 bytes, in units of 16 bytes.
MiB == 65536
\* 256 * 1024 * 1024: the cap of the gradual buffer size.
MaxBufferSize == 256 * MiB
\* 16000 * 1024 * 1024: the stop threshold of both loops.
MemoryLimit == 16000 * MiB
\* 16 * 1024 * 1024: the buffer size of the stress test.
StressBufferSize == 16 * MiB
\* Allocation pairs per stress iteration.
StressPairs == 3

Backends == {"webgpu", "webgl2"}
NoBackend == "none"

VARIABLES
    cur,        \* controller.currentBenchmark: NoBackend (null) or a backend
    supported,  \* the result of checkSupport per backend
    apiReady,   \* initializeAPI has finished its support checks
    canvas,     \* identity of the current rendering surface
    bench,      \* the state of each backend object
    timers,     \* live setInterval timers: a set of [id, owner]
    loops,      \* the test invocations started so far, in order
    inits,      \* WebGPU initialize() calls suspended at an await, FIFO
    log,        \* the log sink
    now,        \* Date.now()
    env,        \* what the environment may still do (remaining budgets)
    lastOp      \* the task that ran last

vars == <<cur, supported, apiReady, canvas, bench, timers, loops, inits, log,
          now, env, lastOp>>

\* ----------------------------------------------------------------- helpers

Min(a, b) == IF a < b THEN a ELSE b

\* F applied to the result v of a call, once the call has returned.
Then(v, F(_)) == CHOOSE y \in {F(x) : x \in {v}} : TRUE

RECURSIVE SumSizes(_)
SumSizes(s) == IF s = <<>> THEN 0 ELSE Head(s).size + SumSizes(Tail(s))

\* width * height * 4 bytes, in units of 16 bytes.
TextureBytes(w, h) == (w * h * 4) \div 16

RECURSIVE SumTextures(_)
SumTextures(s) ==
    IF s = <<>> THEN 0
    ELSE TextureBytes(Head(s).w, Head(s).h) + SumTextures(Tail(s))

NoRenderer == [dev |-> 0, canvas |-> 0, ready |-> FALSE]

\* The fields a backend has after its constructor ran.
NewBenchmark ==
    [buffers |-> <<>>, textures |-> <<>>, allocatedMemory |-> 0,
     isRunning |-> FALSE, startTime |-> 0, lastAllocationTime |-> 0,
     renderInterval |-> 0, initialized |-> FALSE, device |-> 0,
     renderer |-> NoRenderer]

\* The part of the program state synchronous code reads and writes.
World == [bench |-> bench, timers |-> timers, log |-> log]

\* BaseBenchmark.log: one record appended to the log sink.
Log(w, b, msg, sev, val) ==
    [w EXCEPT !.log = Append(@, [api |-> b, msg |-> msg, sev |-> sev, val |-> val])]

\* An id for a new interval timer: one no live timer has.
FreshTimer(w) ==
    CHOOSE i \in 1..(Cardinality(w.timers) + 1) :
        \A t \in w.timers : t.id # i

StopTextureDisplayAll(w, b) ==
    IF w.bench[b].renderInterval # 0
    THEN [w EXCEPT !.timers = {},
                   !.bench[b].renderInterval = 0]
    ELSE w

\* BaseBenchmark.stopTextureDisplay
StopTextureDisplay(w, b) ==
    IF w.bench[b].renderInterval # 0
    THEN [w EXCEPT !.timers = {t \in @ : t.id # w.bench[b].renderInterval},
                   !.bench[b].renderInterval = 0]
    ELSE w

StartTextureDisplayNoCancel(w, b) ==
    [w EXCEPT !.timers = @ \cup {[id |-> FreshTimer(w), owner |-> b]},
              !.bench[b].renderInterval = FreshTimer(w)]

\* startTextureDisplay: cancel the scheduled interval, schedule a new one.
StartTextureDisplay(w, b) ==
    LET w1 == IF w.bench[b].renderInterval # 0
              THEN [w EXCEPT !.timers =
                        {t \in @ : t.id # w.bench[b].renderInterval}]
              ELSE w
        id == FreshTimer(w1)
    IN  [w1 EXCEPT !.timers = @ \cup {[id |-> id, owner |-> b]},
                   !.bench[b].renderInterval = id]

StopTestKeepTimer(w, b) ==
    LET w1 == [w EXCEPT !.bench[b].isRunning = FALSE]
        w2 == Log(w1, b, "completed", "info", 0)
        w3 == Log(w2, b, "final", "info", w.bench[b].allocatedMemory)
        w4 == Log(w3, b, "totals", "info", Len(w.bench[b].buffers))
    IN  IF Len(w.bench[b].textures) > 0
        THEN Log(w4, b, "tip", "info", 0) ELSE w4

\* BaseBenchmark.stopTest
StopTest(w, b) ==
    LET w1 == StopTextureDisplay([w EXCEPT !.bench[b].isRunning = FALSE], b)
        w2 == Log(w1, b, "completed", "info", 0)
        w3 == Log(w2, b, "final", "info", w.bench[b].allocatedMemory)
        w4 == Log(w3, b, "totals", "info", Len(w.bench[b].buffers))
    IN  IF Len(w.bench[b].textures) > 0
        THEN Log(w4, b, "tip", "info", 0) ELSE w4


\* ------------------------------------------------------------- allocation

\* A native creation succeeds when the environment lets it (ok), the backend
\* holds a device/context, and the device still has room.
CanCreate(w, b, ok) ==
    /\ ok
    /\ w.bench[b].device # 0
    /\ Len(w.bench[b].buffers) + Len(w.bench[b].textures) < env.cap

TryBufferNoCount(w, b, size, ok) ==
    IF CanCreate(w, b, ok)
    THEN [w |-> Log([w EXCEPT
                        !.bench[b].buffers =
                            Append(@, [size |-> size, dev |-> w.bench[b].device]),
                        !.bench[b].lastAllocationTime = now],
                    b, "buffer", "info", size),
          ok |-> TRUE]
    ELSE [w |-> Log(w, b, "buffer_failed", "error", 0), ok |-> FALSE]

TryBufferPrepend(w, b, size, ok) ==
    IF CanCreate(w, b, ok)
    THEN [w |-> Log([w EXCEPT
                        !.bench[b].buffers =
                            <<[size |-> size, dev |-> w.bench[b].device]>> \o @,
                        !.bench[b].allocatedMemory = @ + size,
                        !.bench[b].lastAllocationTime = now],
                    b, "buffer", "info", size),
          ok |-> TRUE]
    ELSE [w |-> Log(w, b, "buffer_failed", "error", 0), ok |-> FALSE]

\* allocateBuffer after its lazy initialize: the try block and its catch.
TryBuffer(w, b, size, ok) ==
    IF CanCreate(w, b, ok)
    THEN [w |-> Log([w EXCEPT
                        !.bench[b].buffers =
                            Append(@, [size |-> size, dev |-> w.bench[b].device]),
                        !.bench[b].allocatedMemory = @ + size,
                        !.bench[b].lastAllocationTime = now],
                    b, "buffer", "info", size),
          ok |-> TRUE]
    ELSE [w |-> Log(w, b, "buffer_failed", "error", 0), ok |-> FALSE]

TryTextureFailDirty(w, b, width, height, ok) ==
    IF CanCreate(w, b, ok)
    THEN [w |-> Log([w EXCEPT
                        !.bench[b].textures =
                            Append(@, [w |-> width, h |-> height,
                                       dev |-> w.bench[b].device]),
                        !.bench[b].allocatedMemory = @ + TextureBytes(width, height),
                        !.bench[b].lastAllocationTime = now],
                    b, "texture", "info", TextureBytes(width, height)),
          ok |-> TRUE]
    ELSE [w |-> Log([w EXCEPT !.bench[b].allocatedMemory =
                                  @ + TextureBytes(width, height)],
                    b, "texture_failed", "error", 0),
          ok |-> FALSE]

\* allocateTexture after its lazy initialize: the try block and its catch.
TryTexture(w, b, width, height, ok) ==
    IF CanCreate(w, b, ok)
    THEN [w |-> Log([w EXCEPT
                        !.bench[b].textures =
                            Append(@, [w |-> width, h |-> height,
                                       dev |-> w.bench[b].device]),
                        !.bench[b].allocatedMemory = @ + TextureBytes(width, height),
                        !.bench[b].lastAllocationTime = now],
                    b, "texture", "info", TextureBytes(width, height)),
          ok |-> TRUE]
    ELSE [w |-> Log(w, b, "texture_failed", "error", 0), ok |-> FALSE]

DestroyAllUntilThrow(handles, throws) ==
    LET n == IF \E i \in 1..Len(handles) : i \in throws
             THEN CHOOSE i \in 1..Len(handles) :
                     i \in throws /\ \A j \in 1..(i - 1) : j \notin throws
             ELSE Len(handles)
    IN  [i \in 1..n |-> [handle |-> handles[i], threw |-> i \in throws]]

\* buffers.forEach / textures.forEach of clearMemory: one destroy for every
\* tracked handle in order, each in its own try/catch.  The destroys at the
\* positions in throws throw and are reported with console.warn.
DestroyAll(handles, throws) ==
    [i \in 1..Len(handles) |-> [handle |-> handles[i], threw |-> i \in throws]]

\* The console.warn calls of a destroy loop.
Warned(attempts) ==
    Cardinality({i \in DOMAIN attempts : attempts[i].threw})

\* The destroys of a sequence of n handles that are made to throw: none, the
\* first, or all of them.
DestroyThrows(n) ==
    {{}, 1..n} \cup (IF n > 0 THEN {{1}} ELSE {})

ClearBackendKeepBuffers(w, b) ==
    LET w1 == StopTextureDisplay(Log(w, b, "clearing", "info", 0), b)
    IN  [w1 EXCEPT !.bench[b].textures = <<>>, !.bench[b].allocatedMemory = 0]

ClearBackendKeepTotal(w, b) ==
    LET w1 == StopTextureDisplay(Log(w, b, "clearing", "info", 0), b)
    IN  [w1 EXCEPT !.bench[b].buffers = <<>>, !.bench[b].textures = <<>>]

ClearBackendHalves(w, b) ==
    LET w1 == StopTextureDisplay(Log(w, b, "clearing", "info", 0), b)
    IN  [w1 EXCEPT !.bench[b].buffers = <<>>, !.bench[b].textures = <<>>,
                   !.bench[b].allocatedMemory = @ \div 2]

\* clearMemory of a backend up to its renderer.clear(): every destroy is in
\* its own try/catch, so none of them changes what follows.
ClearBackend(w, b) ==
    LET w1 == StopTextureDisplay(Log(w, b, "clearing", "info", 0), b)
    IN  [w1 EXCEPT !.bench[b].buffers = <<>>, !.bench[b].textures = <<>>,
                   !.bench[b].allocatedMemory = 0]

\* --------------------------------------------------------- initialization

InitOutcomesGL == {"ok", "nocontext", "rendfail"}
InitOutcomesGPU == {"ok", "noadapter", "devfail", "rendfail"}

\* WebGL2MemoryBenchmark.initialize up to its first await: getContext on
\* surface c (the same surface gives the same context), the renderer built.
InitGLSync(w, c, io) ==
    IF io = "nocontext"
    THEN Log([w EXCEPT !.bench["webgl2"].device = 0],
             "webgl2", "no_context", "error", 0)
    ELSE [w EXCEPT !.bench["webgl2"].device = c,
                   !.bench["webgl2"].renderer =
                       [dev |-> c, canvas |-> c, ready |-> (io = "ok")]]

\* WebGL2MemoryBenchmark.initialize after `await this.renderer.initialize()`.
InitGLCont(w, io) ==
    CASE io = "ok" ->
            LET w1 == Log(w, "webgl2", "init_ok", "success", 0)
                w2 == Log(w1, "webgl2", "limits", "info", 0)
                w3 == Log(w2, "webgl2", "limits", "info", 1)
                w4 == Log(w3, "webgl2", "limits", "info", 2)
            IN  [w4 EXCEPT !.bench["webgl2"].initialized = TRUE]
      [] io = "rendfail" -> Log(w, "webgl2", "init_error", "error", 0)
      [] OTHER -> w

InitializeGLAlways(w, c, io) == InitGLCont(InitGLSync(w, c, io), io)

\* WebGL2MemoryBenchmark.initialize, run to its end within the task.
InitializeGL(w, c, io) ==
    IF w.bench["webgl2"].initialized THEN w
    ELSE InitGLCont(InitGLSync(w, c, io), io)

\* WebGPUMemoryBenchmark.initialize from the settling of its adapter and
\* device requests to its end; c is the backend's canvas at that time.
InitGPUFinish(w, c, o) ==
    LET d == w.bench["webgpu"].device + 1
    IN  CASE o = "noadapter" -> Log(w, "webgpu", "no_adapter", "error", 0)
          [] o = "devfail" -> Log(w, "webgpu", "init_error", "error", 0)
          [] o = "rendfail" ->
                Log([w EXCEPT !.bench["webgpu"].device = d,
                              !.bench["webgpu"].renderer =
                                  [dev |-> d, canvas |-> c, ready |-> FALSE]],
                    "webgpu", "init_error", "error", 0)
          [] OTHER ->
                LET w0 == [w EXCEPT !.bench["webgpu"].device = d,
                                    !.bench["webgpu"].renderer =
                                        [dev |-> d, canvas |-> c, ready |-> TRUE]]
                    w1 == Log(w0, "webgpu", "init_ok", "success", 0)
                    w2 == Log(w1, "webgpu", "limits", "info", 0)
                    w3 == Log(w2, "webgpu", "limits", "info", 1)
                    w4 == Log(w3, "webgpu", "limits", "info", 2)
                IN  [w4 EXCEPT !.bench["webgpu"].initialized = TRUE]

\* An allocate call on backend b suspends at `await this.initialize()` for
\* more than microtasks: only WebGPU's initialize awaits the browser.
Suspends(w, b) == b = "webgpu" /\ w.bench[b].device = 0

\* The lazy initialize of an allocate call that does not suspend.
LazyInit(w, b, io) ==
    IF b = "webgl2" /\ w.bench[b].device = 0 THEN InitializeGL(w, canvas, io)
    ELSE w

\* A suspended initialize() call and what continues when it settles.
SwitchInit == [cont |-> "switch", loop |-> 0, kind |-> "-", size |-> 0, side |-> 0]
AllocInit(l, kind, size, side) ==
    [cont |-> "alloc", loop |-> l, kind |-> kind, size |-> size, side |-> side]

\* ------------------------------------------------------- escalation loops

GradualTextureSizeFrom5(count) ==
    IF count >= 25 THEN 4096
    ELSE IF count >= 15 THEN 2048
    ELSE IF count >= 5 THEN 1024
    ELSE 512

\* The step function of the gradual texture side (count before the call).
GradualTextureSize(count) ==
    IF count > 25 THEN 4096
    ELSE IF count > 15 THEN 2048
    ELSE IF count > 5 THEN 1024
    ELSE 512

StressTextureSizeFrom10(count) ==
    IF count >= 20 THEN 8192
    ELSE IF count >= 10 THEN 4096
    ELSE 2048

\* The step function of the stress texture side.
StressTextureSize(count) ==
    IF count > 20 THEN 8192
    ELSE IF count > 10 THEN 4096
    ELSE 2048

\* Math.min(allocationSize * 1.1, 256 MiB), truncated to the unit.
GrowSize(size) == Min((size * 11) \div 10, MaxBufferSize)

GrowsAtNever(count) == FALSE

\* buffers.length % 10 === 0
GrowsAt(count) == count % 10 = 0

\* How many of a gradual test's requested buffer sizes its record keeps.
RequestsKept == 11

\* A test invocation: the local state of one startMemoryTest /
\* startStressTest call, and what it has done so far (the fields after
\* `remaining` record history and steer nothing).
NewLoop(id, mode) ==
    [id |-> id, mode |-> mode, pc |-> "run",
     size |-> IF mode = "gradual" THEN MiB ELSE 0,
     remaining |-> 0,
     home |-> cur,
     startedEmpty |-> bench[cur].buffers = <<>> /\ bench[cur].textures = <<>>,
     logStart |-> Len(log), logEnd |-> 0,
     issued |-> 0, threw |-> FALSE, afterThrow |-> 0,
     caught |-> FALSE, catchAt |-> 0, issuedAtCatch |-> 0,
     stops |-> 0, iters |-> 0, overLimit |-> FALSE,
     requests |-> <<>>, sizeBefore |-> 0, countAtEnd |-> 0]

\* One allocate call issued by the loop.
Issue(L) ==
    [L EXCEPT !.issued = @ + 1,
              !.afterThrow = IF L.threw THEN @ + 1 ELSE @]

\* The result of running a loop until it suspends or ends: the world, the
\* loop, and the initialize() calls it left suspended.
Step(w, L, q) == [w |-> w, loop |-> L, q |-> q]

ExitSkipStop(w, L) ==
    Step(w, [L EXCEPT !.pc = "done", !.logEnd = Len(w.log)], <<>>)

\* The loop's final `this.currentBenchmark.stopTest()`.
Exit(w, L) ==
    Then(StopTest(w, cur), LAMBDA w1 :
        Step(w1, [L EXCEPT !.pc = "done", !.stops = @ + 1,
                           !.logEnd = Len(w1.log)], <<>>))

CaughtRetry(w, L) ==
    Step(Log(Log(w, cur, "loop_error", "error", 0), cur, "hint", "warning", 0),
         [L EXCEPT !.pc = "sleep", !.caught = TRUE, !.catchAt = Len(w.log),
                   !.issuedAtCatch = L.issued],
         <<>>)

\* The catch block of either loop, then the final stopTest.
Caught(w, L) ==
    Exit(Log(Log(w, cur, "loop_error", "error", 0), cur, "hint", "warning", 0),
         [L EXCEPT !.caught = TRUE, !.catchAt = Len(w.log),
                   !.issuedAtCatch = L.issued])

\* Gradual loop, after `await allocateTexture` returned.
GradualAfterTexture(w, L) ==
    LET w1 == IF Len(w.bench[cur].textures) = 1
              THEN Log(StartTextureDisplay(w, cur), cur, "display", "success", 0)
              ELSE w
    IN  Step(w1,
             [L EXCEPT !.pc = "sleep", !.iters = @ + 1,
                       !.size = IF GrowsAt(Len(w.bench[cur].buffers))
                                THEN GrowSize(@) ELSE @,
                       !.sizeBefore = L.size,
                       !.countAtEnd = Len(w.bench[cur].buffers)],
             <<>>)

\* Gradual loop, after `await allocateBuffer` returned.
GradualAfterBuffer(w, L, oks, io) ==
    LET side == GradualTextureSize(Len(w.bench[cur].textures))
        L1 == Issue(L)
    IN  IF Suspends(w, cur)
        THEN Step(w, [L1 EXCEPT !.pc = "await"],
                  <<AllocInit(L.id, "T", 0, side)>>)
        ELSE Then(TryTexture(LazyInit(w, cur, io), cur, side, side, oks[2]),
                  LAMBDA r : IF r.ok THEN GradualAfterTexture(r.w, L1)
                             ELSE Caught(r.w, [L1 EXCEPT !.threw = TRUE]))

\* Gradual loop from its `while (this.currentBenchmark.isRunning)`.
GradualTop(w, L, oks, io) ==
    IF ~w.bench[cur].isRunning THEN Exit(w, L)
    ELSE LET L1 == Issue([L EXCEPT
                            !.overLimit =
                                @ \/ w.bench[cur].allocatedMemory > MemoryLimit,
                            !.requests = IF Len(@) < RequestsKept
                                         THEN Append(@, L.size) ELSE @])
         IN  IF Suspends(w, cur)
             THEN Step(w, [L1 EXCEPT !.pc = "await"],
                       <<AllocInit(L.id, "B", L.size, 0)>>)
             ELSE Then(TryBuffer(LazyInit(w, cur, io), cur, L.size, oks[1]),
                       LAMBDA r :
                          IF r.ok THEN GradualAfterBuffer(r.w, L1, oks, io)
                          ELSE Caught(r.w, [L1 EXCEPT !.threw = TRUE]))

\* Stress loop, after `await Promise.all(promises)` returned.
StressAfterBatch(w, L) ==
    LET w1 == IF Len(w.bench[cur].textures) >= 1
                 /\ w.bench[cur].renderInterval = 0
              THEN Log(StartTextureDisplay(w, cur), cur, "display", "success", 0)
              ELSE w
    IN  Step(w1, [L EXCEPT !.pc = "sleep", !.iters = @ + 1], <<>>)

\* The i-th call of a stress batch: buffer, texture, buffer, ...
IsBufferCall(i) == i % 2 = 1

\* The for loop of a stress iteration, were it to end at the first call that
\* failed.
RECURSIVE StressCallsStopAtFailure(_, _, _, _, _, _)
StressCallsStopAtFailure(w, L, dq, i, oks, io) ==
    IF i > 2 * StressPairs \/ L.threw THEN [w |-> w, loop |-> L, dq |-> dq]
    ELSE
      LET side == StressTextureSize(Len(w.bench[cur].textures))
          call == IF IsBufferCall(i)
                  THEN [i |-> i, kind |-> "B", size |-> StressBufferSize, side |-> 0]
                  ELSE [i |-> i, kind |-> "T", size |-> 0, side |-> side]
          L1 == Issue(L)
      IN  IF w.bench[cur].device # 0
          THEN LET r == IF call.kind = "B"
                        THEN TryBuffer(w, cur, call.size, oks[i])
                        ELSE TryTexture(w, cur, side, side, oks[i])
               IN  Then(r, LAMBDA x :
                        StressCallsStopAtFailure(x.w, [L1 EXCEPT !.threw = @ \/ ~x.ok],
                                                 dq, i + 1, oks, io))
          ELSE IF cur = "webgl2"
          THEN Then(InitGLSync(w, canvas, io), LAMBDA x :
                    StressCallsStopAtFailure(x, L1, Append(dq, call), i + 1, oks, io))
          ELSE StressCallsStopAtFailure(w, L1, Append(dq, call), i + 1, oks, io)

\* The for loop of a stress iteration from its i-th call on.  Each call runs
\* to its end when the backend holds a device/context; otherwise it stays
\* suspended in its lazy initialize (dq), which for WebGL2 has already set
\* the context when the next call is made.
RECURSIVE StressCalls(_, _, _, _, _, _)
StressCalls(w, L, dq, i, oks, io) ==
    IF i > 2 * StressPairs THEN [w |-> w, loop |-> L, dq |-> dq]
    ELSE
      LET side == StressTextureSize(Len(w.bench[cur].textures))
          call == IF IsBufferCall(i)
                  THEN [i |-> i, kind |-> "B", size |-> StressBufferSize, side |-> 0]
                  ELSE [i |-> i, kind |-> "T", size |-> 0, side |-> side]
          L1 == Issue(L)
      IN  IF w.bench[cur].device # 0
          THEN LET r == IF call.kind = "B"
                        THEN TryBuffer(w, cur, call.size, oks[i])
                        ELSE TryTexture(w, cur, side, side, oks[i])
               IN  Then(r, LAMBDA x :
                        StressCalls(x.w, [L1 EXCEPT !.threw = @ \/ ~x.ok],
                                    dq, i + 1, oks, io))
          ELSE IF cur = "webgl2"
          THEN Then(InitGLSync(w, canvas, io), LAMBDA x :
                    StressCalls(x, L1, Append(dq, call), i + 1, oks, io))
          ELSE StressCalls(w, L1, Append(dq, call), i + 1, oks, io)

\* The calls of a WebGL2 batch that were suspended in initialize, resumed in
\* call order by the microtask queue once the for loop has ended.
RECURSIVE ResumeCalls(_, _, _, _, _)
ResumeCalls(w, L, dq, oks, io) ==
    IF dq = <<>> THEN [w |-> w, loop |-> L]
    ELSE LET call == Head(dq)
             w1 == InitGLCont(w, io)
             r == IF call.kind = "B"
                  THEN TryBuffer(w1, cur, call.size, oks[call.i])
                  ELSE TryTexture(w1, cur, call.side, call.side, oks[call.i])
         IN  Then(r, LAMBDA x :
                  ResumeCalls(x.w, [L EXCEPT !.threw = @ \/ ~x.ok],
                              Tail(dq), oks, io))

RECURSIVE AsInits(_, _)
AsInits(l, dq) ==
    IF dq = <<>> THEN <<>>
    ELSE <<AllocInit(l, Head(dq).kind, Head(dq).size, Head(dq).side)>>
         \o AsInits(l, Tail(dq))

\* Stress loop from its `while (this.currentBenchmark.isRunning)`.
StressTop(w, L, oks, io) ==
    IF ~w.bench[cur].isRunning THEN Exit(w, L)
    ELSE
      LET L0 == [L EXCEPT !.overLimit =
                    @ \/ w.bench[cur].allocatedMemory > MemoryLimit]
      IN  Then(StressCalls(w, L0, <<>>, 1, oks, io), LAMBDA s :
            IF s.dq # <<>> /\ cur = "webgpu"
            THEN Step(s.w, [s.loop EXCEPT !.pc = "batch",
                                          !.remaining = Len(s.dq)],
                      AsInits(L.id, s.dq))
            ELSE Then(ResumeCalls(s.w, s.loop, s.dq, oks, io), LAMBDA r :
                    IF r.loop.threw THEN Caught(r.w, r.loop)
                    ELSE StressAfterBatch(r.w, r.loop)))

LoopTop(w, L, oks, io) ==
    IF L.mode = "gradual" THEN GradualTop(w, L, oks, io)
    ELSE StressTop(w, L, oks, io)

\* Either loop from the expiry of its sleep: the threshold check, then the
\* next iteration.
Wake(w, L, oks, io) ==
    IF w.bench[cur].allocatedMemory > MemoryLimit
    THEN Exit(Log(w, cur, "limit", "warning", 0), L)
    ELSE LoopTop(w, L, oks, io)

\* --------------------------------------------------------------- rendering

\* Math.sqrt(n) as far as Math.ceil needs it: the integer part of the root.
FloorSqrt(n) == CHOOSE r \in 0..n : r * r <= n /\ (r + 1) * (r + 1) > n

GridSizeFloor(textureCount) == FloorSqrt(textureCount)

\* Math.ceil(Math.sqrt(textureCount)): the root itself when it is integral,
\* the next integer otherwise.
GridSize(textureCount) ==
    LET r == FloorSqrt(textureCount)
    IN  IF r * r = textureCount THEN r ELSE r + 1

\* renderTextureGrid(textures) of a renderer: the cells it draws, one per
\* index below min(textureCount, gridSize * gridSize); nothing when the
\* renderer has no pipeline/program or there is no texture.
RenderTextureGrid(renderer, textures) ==
    IF ~renderer.ready \/ Len(textures) = 0 THEN {}
    ELSE LET gridSize == GridSize(Len(textures))
         IN  {[i |-> i, row |-> i \div gridSize, col |-> i % gridSize] :
                 i \in 0..(Min(Len(textures), gridSize * gridSize) - 1)}

\* One grid pass in which the native call made for cell failAt throws (none
\* does when failAt is the number of cells): the cells before it were drawn.
RenderPass(renderer, textures, failAt) ==
    LET grid == RenderTextureGrid(renderer, textures)
    IN  [drawn |-> {c \in grid : c.i < failAt},
         failed |-> failAt < Cardinality(grid)]
\* Where on the surface a cell lands, in cells from the left and from the
\* top of a side x side division of the surface.
\* WebGPURenderer: setViewport(col * width / side, row * height / side, ...);
\* the viewport's origin is the surface's top-left corner, y pointing down.
ViewportCell(row, col, side) ==
    [left |-> col, top |-> row]

\* WebGL2Renderer: the vertex shader places corner a (-1 or 1 on each axis)
\* at a * u_viewport + u_offset * 2.0 - 1.0 + u_viewport in clip space, with
\* u_viewport = 1 / side and u_offset = (col / side, row / side).  In units
\* of 1 / side the quad spans xLow..xLow + 2 and yLow..yLow + 2; clip-space
\* y points up, so the quad's top edge is its high y.
ClipCell(row, col, side) ==
    LET xLow == (0 - 1) + 2 * col - side + 1
        yLow == (0 - 1) + 2 * row - side + 1
    IN  [left |-> (xLow + side) \div 2,
         top |-> (side - (yLow + 2)) \div 2]

\* The on-screen cell of every texture index a grid pass of backend api
\* draws.
ScreenCells(api, renderer, textures) ==
    LET side == GridSize(Len(textures))
    IN  {[i |-> c.i,
          cell |-> IF api = "webgpu" THEN ViewportCell(c.row, c.col, side)
                   ELSE ClipCell(c.row, c.col, side)] :
            c \in RenderTextureGrid(renderer, textures)}

\* ---------------------------------------------------------------- actions

SetWorld(w) == bench' = w.bench /\ timers' = w.timers /\ log' = w.log

\* The outcomes the environment gives the (up to six) native creations of
\* one task, of which at most n are attempted.
Outcomes(n) ==
    {f \in [1..(2 * StressPairs) -> BOOLEAN] :
        /\ \A i \in 1..(2 * StressPairs) : i > n => f[i]
        /\ Cardinality({i \in 1..(2 * StressPairs) : ~f[i]}) <= env.fails}

\* The native creations a loop of the given mode attempts in the task that
\* runs it from the top of its while.
Attempts(mode) ==
    IF Suspends(World, cur) THEN 0
    ELSE IF mode = "gradual" THEN 2 ELSE 2 * StressPairs

Failures(oks) == Cardinality({i \in DOMAIN oks : ~oks[i]})

\* The outcomes of a WebGL2 context acquisition the task may come to make.
GLOutcomes(used) ==
    IF cur = "webgl2" /\ bench["webgl2"].device = 0 /\ env.fails > used
    THEN InitOutcomesGL ELSE {"ok"}

\* What the last task was; warns counts its console.warn calls, which never
\* reach the log sink.
OpWarn(op, b, ok, warns) ==
    [op |-> op, b |-> b, ok |-> ok, warns |-> warns]

Op(op, b, ok) ==
    OpWarn(op, b, ok, 0)

SwitchKeepFlags(w, api, c, io) ==
    LET w1 == IF cur # NoBackend /\ w.bench[cur].isRunning
              THEN StopTest(Log(w, cur, "switch_stop", "warning", 0), cur)
              ELSE w
        w3 == IF api = "webgl2"
              THEN LET wi == InitializeGL(w1, c, io)
                   IN  IF wi.bench["webgl2"].initialized
                       THEN Log(wi, "webgl2", "switched", "info", 0) ELSE wi
              ELSE w1
    IN  [w |-> w3, q |-> IF api = "webgpu" THEN <<SwitchInit>> ELSE <<>>]

\* switchAPI, were it to leave a running test of the old backend running.
SwitchNoStop(w, api, c, io) ==
    LET w2 == [w EXCEPT !.bench["webgpu"].initialized = FALSE,
                        !.bench["webgl2"].initialized = FALSE]
        w3 == IF api = "webgl2"
              THEN LET wi == InitializeGL(w2, c, io)
                   IN  IF wi.bench["webgl2"].initialized
                       THEN Log(wi, "webgl2", "switched", "info", 0) ELSE wi
              ELSE w2
    IN  [w |-> w3, q |-> IF api = "webgpu" THEN <<SwitchInit>> ELSE <<>>]

\* switchAPI(api) up to the end of its task; c is the new canvas.  For
\* WebGL2 initialize() ends within the task, for WebGPU it stays suspended
\* (q).
Switch(w, api, c, io) ==
    LET w1 == IF cur # NoBackend /\ w.bench[cur].isRunning
              THEN StopTest(Log(w, cur, "switch_stop", "warning", 0), cur)
              ELSE w
        w2 == [w1 EXCEPT !.bench["webgpu"].initialized = FALSE,
                         !.bench["webgl2"].initialized = FALSE]
        w3 == IF api = "webgl2"
              THEN LET wi == InitializeGL(w2, c, io)
                   IN  IF wi.bench["webgl2"].initialized
                       THEN Log(wi, "webgl2", "switched", "info", 0) ELSE wi
              ELSE w2
    IN  [w |-> w3, q |-> IF api = "webgpu" THEN <<SwitchInit>> ELSE <<>>]

DoSwitch(w, api, io, cost) ==
    \E r \in {Switch(w, api, canvas + 1, io)} :
        /\ env.cmds >= cost
        /\ io # "ok" => api = "webgl2" /\ env.fails > 0
        /\ SetWorld(r.w)
        /\ cur' = api
        /\ canvas' = canvas + 1
        /\ inits' = inits \o r.q
        /\ now' = now + 1
        /\ env' = [env EXCEPT !.cmds = @ - cost,
                              !.fails = IF io # "ok" THEN @ - 1 ELSE @]
        /\ lastOp' = Op("switchAPI", api, TRUE)
        /\ UNCHANGED loops

\* checkSupport of one backend: its log record.
SupportLog(w, b, sup) ==
    IF sup[b] THEN Log(w, b, "support", "success", 0)
    ELSE Log(w, b, "no_support", "error", 0)

\* BenchmarkController.initializeAPI: both support checks, then the first
\* switchAPI.  No command does anything before it, currentBenchmark is null.
InitializeAPI ==
    /\ ~apiReady
    /\ \E sup \in [Backends -> BOOLEAN], io \in InitOutcomesGL :
          LET w0 == SupportLog(SupportLog(World, "webgpu", sup), "webgl2", sup)
          IN  /\ supported' = sup
              /\ apiReady' = TRUE
              /\ IF sup["webgpu"] THEN io = "ok" /\ DoSwitch(w0, "webgpu", io, 0)
                 ELSE IF sup["webgl2"] THEN DoSwitch(w0, "webgl2", io, 0)
                 ELSE /\ io = "ok"
                      /\ SetWorld(w0)
                      /\ now' = now + 1
                      /\ lastOp' = Op("initializeAPI", NoBackend, FALSE)
                      /\ UNCHANGED <<cur, canvas, inits, env, loops>>

\* The api-option click handler: switchAPI for an option not disabled.
SwitchAPI ==
    /\ apiReady
    /\ \E api \in Backends, io \in InitOutcomesGL :
          /\ supported[api]
          /\ DoSwitch(World, api, io, 1)
          /\ UNCHANGED <<supported, apiReady>>

CanStartAlways == cur # NoBackend

\* The guard of startMemoryTest / startStressTest, negated.
CanStart == cur # NoBackend /\ ~bench[cur].isRunning

StartTest(mode, op) ==
    IF ~CanStart
    THEN /\ lastOp' = Op(op, cur, FALSE)
         /\ UNCHANGED <<cur, supported, apiReady, canvas, bench, timers, loops,
                        inits, log, now, env>>
    ELSE /\ env.cmds > 0
         /\ \E oks \in Outcomes(Attempts(mode)) :
            \E io \in GLOutcomes(Failures(oks)) :
            \E r \in {LoopTop(Log([World EXCEPT
                                      !.bench[cur].isRunning = TRUE,
                                      !.bench[cur].startTime = now,
                                      !.bench[cur].lastAllocationTime = now],
                                  cur, mode, "info", 0),
                              NewLoop(Len(loops) + 1, mode), oks, io)} :
               /\ SetWorld(r.w)
               /\ loops' = Append(loops, r.loop)
               /\ inits' = inits \o r.q
               /\ now' = now + 1
               /\ env' = [env EXCEPT
                             !.cmds = @ - 1,
                             !.fails = @ - Failures(oks)
                                         - (IF io # "ok" THEN 1 ELSE 0)]
               /\ lastOp' = Op(op, cur, TRUE)
               /\ UNCHANGED <<cur, supported, apiReady, canvas>>

\* BenchmarkController.startMemoryTest up to the end of its task.
StartMemoryTest == StartTest("gradual", "startMemoryTest")

\* BenchmarkController.startStressTest up to the end of its task.
StartStressTest == StartTest("stress", "startStressTest")

\* The sleep timer of loop l expires: the loop runs to its next suspension.
LoopWake(l) ==
    /\ loops[l].pc = "sleep"
    /\ \E oks \in Outcomes(Attempts(loops[l].mode)) :
       \E io \in GLOutcomes(Failures(oks)) :
       \E r \in {Wake(World, loops[l], oks, io)} :
          /\ SetWorld(r.w)
          /\ loops' = [loops EXCEPT ![l] = r.loop]
          /\ inits' = inits \o r.q
          /\ now' = now + 1
          /\ env' = [env EXCEPT
                        !.fails = @ - Failures(oks)
                                    - (IF io # "ok" THEN 1 ELSE 0)]
          /\ lastOp' = Op("wake", cur, TRUE)
          /\ UNCHANGED <<cur, supported, apiReady, canvas>>

\* What a suspended allocate call does once its initialize() has returned,
\* and where the loop that awaits it goes from there.
ResumeAlloc(w, e, oks, io) ==
    LET L == loops[e.loop]
        rest == [i \in 1..(2 * StressPairs) |-> IF i = 2 THEN oks[2] ELSE TRUE]
    IN  Then(IF e.kind = "B" THEN TryBuffer(w, "webgpu", e.size, oks[1])
             ELSE TryTexture(w, "webgpu", e.side, e.side, oks[1]),
             LAMBDA r :
                IF L.pc = "await"
                THEN IF ~r.ok THEN Caught(r.w, [L EXCEPT !.threw = TRUE])
                     ELSE IF e.kind = "B" THEN GradualAfterBuffer(r.w, L, rest, io)
                     ELSE GradualAfterTexture(r.w, L)
                ELSE IF L.pc = "batch"
                THEN IF ~r.ok THEN Caught(r.w, [L EXCEPT !.threw = TRUE])
                     ELSE IF L.remaining = 1
                     THEN StressAfterBatch(r.w, [L EXCEPT !.remaining = 0])
                     ELSE Step(r.w, [L EXCEPT !.remaining = @ - 1], <<>>)
                ELSE Step(r.w, L, <<>>))

\* The oldest suspended WebGPU initialize() settles with outcome o; its
\* caller continues: switchAPI, or an allocate call and the loop behind it.
InitResolve ==
    /\ inits # <<>>
    /\ \E o \in InitOutcomesGPU, oks \in Outcomes(2) :
       \E io \in GLOutcomes(Failures(oks) + (IF o # "ok" THEN 1 ELSE 0)) :
          LET e == Head(inits)
              w1 == InitGPUFinish(World, canvas, o)
          IN  /\ o # "ok" => env.fails > Failures(oks)
              /\ IF e.cont = "switch"
                 THEN /\ oks = [i \in 1..(2 * StressPairs) |-> TRUE]
                      /\ io = "ok"
                      /\ SetWorld(IF o = "ok"
                                  THEN Log(w1, cur, "switched", "info", 0)
                                  ELSE w1)
                      /\ inits' = Tail(inits)
                      /\ UNCHANGED loops
                 ELSE \E r \in {ResumeAlloc(w1, e, oks, io)} :
                          /\ SetWorld(r.w)
                          /\ loops' = [loops EXCEPT ![e.loop] = r.loop]
                          /\ inits' = Tail(inits) \o r.q
              /\ now' = now + 1
              /\ env' = [env EXCEPT
                            !.fails = @ - Failures(oks)
                                        - (IF o # "ok" THEN 1 ELSE 0)
                                        - (IF io # "ok" THEN 1 ELSE 0)]
              /\ lastOp' = Op("initResolve", "webgpu", o = "ok")
              /\ UNCHANGED <<cur, supported, apiReady, canvas>>

\* Where a grid pass over n textures is made to throw: before its first
\* cell, half-way, or nowhere.
FailPoints(n) ==
    {0, n \div 2, n}

TickStopsOnFailure(t) ==
    /\ t \in timers
    /\ \E failAt \in FailPoints(Len(bench[t.owner].textures)) :
         \E r \in {RenderPass(bench[t.owner].renderer,
                              bench[t.owner].textures, failAt)} :
            /\ lastOp' = OpWarn("tick", t.owner,
                                ~r.failed /\ r.drawn # {},
                                IF r.failed THEN 1 ELSE 0)
            /\ timers' = IF r.failed THEN timers \ {t} ELSE timers
            /\ bench' = IF r.failed
                        THEN [bench EXCEPT ![t.owner].renderInterval = 0]
                        ELSE bench
    /\ UNCHANGED <<cur, supported, apiReady, canvas, loops,
                   inits, log, now, env>>

\* A redraw tick of interval t: if the backend tracks textures, one grid
\* pass, which reads them and changes nothing of the backend.  A native call
\* of the pass may throw before cell failAt is drawn; the pass's catch then
\* calls console.warn (ok: every cell of a non-empty grid was drawn).
Tick(t) ==
    /\ t \in timers
    /\ \E failAt \in FailPoints(Len(bench[t.owner].textures)) :
         \E r \in {RenderPass(bench[t.owner].renderer,
                              bench[t.owner].textures, failAt)} :
            lastOp' = OpWarn("tick", t.owner,
                             ~r.failed /\ r.drawn # {},
                             IF r.failed THEN 1 ELSE 0)
    /\ UNCHANGED <<cur, supported, apiReady, canvas, bench, timers, loops,
                   inits, log, now, env>>

\* BenchmarkController.clearMemory; some destroys may throw, which changes
\* nothing but the console; renderer.clear() may throw, and then the closing
\* log record is not written.
ClearMemory ==
    IF cur = NoBackend
    THEN /\ lastOp' = Op("clearMemory", cur, FALSE)
         /\ UNCHANGED <<cur, supported, apiReady, canvas, bench, timers, loops,
                        inits, log, now, env>>
    ELSE /\ env.cmds > 0
         /\ env.clears > 0
         /\ \E throws \in BOOLEAN,
               bt \in DestroyThrows(Len(bench[cur].buffers)),
               tt \in DestroyThrows(Len(bench[cur].textures)) :
              /\ throws => env.fails > 0 /\ bench[cur].renderer.dev # 0
              /\ LET w1 == ClearBackend(World, cur)
                 IN  SetWorld(IF throws THEN w1
                              ELSE Log(w1, cur, "cleared", "success", 0))
              /\ env' = [env EXCEPT !.cmds = @ - 1,
                                    !.clears = @ - 1,
                                    !.fails = IF throws THEN @ - 1 ELSE @]
              /\ lastOp' = OpWarn("clearMemory", cur, ~throws,
                                  Warned(DestroyAll(bench[cur].buffers, bt))
                                  + Warned(DestroyAll(bench[cur].textures, tt)))
         /\ now' = now + 1
         /\ UNCHANGED <<cur, supported, apiReady, canvas, loops, inits>>

\* ---------------------------------------------------------- specification

Budget(cap, fails, cmds, clears) ==
    [cap |-> cap, fails |-> fails, cmds |-> cmds, clears |-> clears]

\* The state after `new BenchmarkController()`, before initializeAPI's checks.
Constructed ==
    /\ cur = NoBackend
    /\ supported = [b \in Backends |-> FALSE]
    /\ apiReady = FALSE
    /\ canvas = 1
    /\ bench = [b \in Backends |-> NewBenchmark]
    /\ timers = {}
    /\ loops = <<>>
    /\ inits = <<>>
    /\ log = <<>>
    /\ now = 1
    /\ lastOp = Op("new", NoBackend, TRUE)

Init ==
    /\ Constructed
    /\ env = Budget(MaxRes, MaxFails, MaxCmds, MaxClears)

Next ==
    \/ InitializeAPI
    \/ SwitchAPI
    \/ StartMemoryTest
    \/ StartStressTest
    \/ \E l \in DOMAIN loops : LoopWake(l)
    \/ InitResolve
    \/ \E t \in timers : Tick(t)
    \/ ClearMemory

Spec == Init /\ [][Next]_vars

\* Long uninterrupted runs: a device that rejects the 25th resource, where
\* clearMemory may come once, or a device with room beyond the threshold.
\* No switchAPI click, no injected failure.
ScenarioRes == 24
AmpleRes == 1000
\* Tests a long run may start.
RunTests == 2

InitRun ==
    /\ Constructed
    /\ env \in {Budget(ScenarioRes, 0, RunTests, 1),
                Budget(AmpleRes, 0, RunTests, 0)}

NextRun ==
    \/ InitializeAPI
    \/ StartMemoryTest
    \/ StartStressTest
    \/ \E l \in DOMAIN loops : LoopWake(l)
    \/ InitResolve
    \/ \E t \in timers : Tick(t)
    \/ ClearMemory

SpecRun == InitRun /\ [][NextRun]_vars

\* The same runs when every sleep timer fires and every adapter/device
\* request settles.
FairSpecRun ==
    /\ SpecRun
    /\ WF_vars(\E l \in DOMAIN loops : LoopWake(l))
    /\ WF_vars(InitResolve)

\* ------------------------------------------------- the backends on their own

\* The public methods of the two backend objects called directly, in any
\* order, on the objects as their constructors leave them: no controller, no
\* escalation loop.  Calls the specification may make, failures the
\* environment may inject, resources a device accepts.
ApiCalls == 4
ApiFails == 1
ApiRes == 2

\* A suspended WebGPU initialize() called directly (kind "-") or by a direct
\* allocate call (kind "B" / "T").
CallInit(kind) ==
    [cont |-> "call", loop |-> 0, kind |-> kind,
     size |-> IF kind = "B" THEN MiB ELSE 0,
     side |-> IF kind = "T" THEN 512 ELSE 0]

\* The frame of a direct call on backend b that ends within its task.
Call(op, b, ok, w, failed) ==
    /\ env.cmds > 0
    /\ env.fails >= failed
    /\ SetWorld(w)
    /\ now' = now + 1
    /\ env' = [env EXCEPT !.cmds = @ - 1, !.fails = @ - failed]
    /\ lastOp' = Op(op, b, ok)
    /\ UNCHANGED <<cur, supported, apiReady, canvas, loops>>

\* A direct call that suspends in WebGPU's initialize().
CallAwait(op, kind) ==
    /\ env.cmds > 0
    /\ inits' = Append(inits, CallInit(kind))
    /\ now' = now + 1
    /\ env' = [env EXCEPT !.cmds = @ - 1]
    /\ lastOp' = Op(op, "webgpu", TRUE)
    /\ UNCHANGED <<cur, supported, apiReady, canvas, loops, bench, timers, log>>

\* backend.initialize()
CallInitialize(b) ==
    IF b = "webgl2"
    THEN \E io \in IF bench[b].initialized THEN {"ok"} ELSE InitOutcomesGL :
         \E w \in {InitializeGL(World, canvas, io)} :
            /\ Call("initialize", b, w.bench[b].initialized, w,
                    IF io = "ok" THEN 0 ELSE 1)
            /\ UNCHANGED inits
    ELSE IF bench[b].initialized
    THEN Call("initialize", b, TRUE, World, 0) /\ UNCHANGED inits
    ELSE CallAwait("initialize_await", "-")

\* backend.allocateBuffer(1 MiB) / backend.allocateTexture(512, 512)
CallAllocate(b, kind) ==
    LET op == IF kind = "B" THEN "allocateBuffer" ELSE "allocateTexture"
    IN  IF Suspends(World, b) THEN CallAwait("allocate_await", kind)
        ELSE \E ok \in BOOLEAN :
             \E io \in IF b = "webgl2" /\ bench[b].device = 0
                       THEN InitOutcomesGL ELSE {"ok"} :
             \E r \in {IF kind = "B"
                       THEN TryBuffer(LazyInit(World, b, io), b, MiB, ok)
                       ELSE TryTexture(LazyInit(World, b, io), b, 512, 512, ok)} :
                /\ Call(op, b, r.ok, r.w,
                        (IF ok THEN 0 ELSE 1) + (IF io = "ok" THEN 0 ELSE 1))
                /\ UNCHANGED inits

\* The oldest suspended initialize() settles, and the direct call behind it
\* returns.
InitSettle ==
    /\ inits # <<>>
    /\ Head(inits).cont = "call"
    /\ \E o \in InitOutcomesGPU, ok \in BOOLEAN :
          LET e == Head(inits)
              w1 == InitGPUFinish(World, canvas, o)
              failed == (IF o = "ok" THEN 0 ELSE 1)
                        + (IF ok THEN 0 ELSE 1)
          IN  /\ env.fails >= failed
              /\ e.kind = "-" => ok
              /\ \E r \in {IF e.kind = "B" THEN TryBuffer(w1, "webgpu", e.size, ok)
                           ELSE IF e.kind = "T"
                           THEN TryTexture(w1, "webgpu", e.side, e.side, ok)
                           ELSE [w |-> w1, ok |-> o = "ok"]} :
                    /\ SetWorld(r.w)
                    /\ lastOp' = Op(IF e.kind = "-" THEN "initialize_return"
                                    ELSE "allocate_return", "webgpu", r.ok)
              /\ inits' = Tail(inits)
              /\ now' = now + 1
              /\ env' = [env EXCEPT !.fails = @ - failed]
              /\ UNCHANGED <<cur, supported, apiReady, canvas, loops>>

\* backend.startTextureDisplay() (ok: an interval was scheduled at the call)
CallStartTextureDisplay(b) ==
    /\ Call("startTextureDisplay", b, bench[b].renderInterval # 0,
            StartTextureDisplay(World, b), 0)
    /\ UNCHANGED inits

\* backend.stopTextureDisplay()
CallStopTextureDisplay(b) ==
    /\ Call("stopTextureDisplay", b, bench[b].renderInterval # 0,
            StopTextureDisplay(World, b), 0)
    /\ UNCHANGED inits

\* backend.stopTest()
CallStopTest(b) ==
    /\ Call("stopTest", b, bench[b].renderInterval # 0, StopTest(World, b), 0)
    /\ UNCHANGED inits

\* backend.clearMemory(), its renderer.clear() not failing
CallClearMemory(b) ==
    /\ env.cmds > 0
    /\ SetWorld(Log(ClearBackend(World, b), b, "cleared", "success", 0))
    /\ now' = now + 1
    /\ env' = [env EXCEPT !.cmds = @ - 1]
    /\ \E bt \in DestroyThrows(Len(bench[b].buffers)),
          tt \in DestroyThrows(Len(bench[b].textures)) :
          lastOp' = OpWarn("clearMemory", b, bench[b].renderInterval # 0,
                           Warned(DestroyAll(bench[b].buffers, bt))
                           + Warned(DestroyAll(bench[b].textures, tt)))
    /\ UNCHANGED <<cur, supported, apiReady, canvas, loops, inits>>

InitApi ==
    /\ Constructed
    /\ env = Budget(ApiRes, ApiFails, ApiCalls, 0)

NextApi ==
    \/ \E b \in Backends : CallInitialize(b)
    \/ \E b \in Backends, kind \in {"B", "T"} : CallAllocate(b, kind)
    \/ InitSettle
    \/ \E b \in Backends : CallStartTextureDisplay(b)
    \/ \E b \in Backends : CallStopTextureDisplay(b)
    \/ \E b \in Backends : CallStopTest(b)
    \/ \E b \in Backends : CallClearMemory(b)
    \/ \E t \in timers : Tick(t)

SpecApi == InitApi /\ [][NextApi]_vars

\* ------------------------------------------------ the formatters on their own

\* formatBytes takes its argument as five base-1024 digits, least significant
\* first, so that every integer below 1024^5 can be written.
K == 1024
Sizes == <<"B", "KB", "MB", "GB", "TB">>
FormatDigits == {0, 1, 2, 512, 1020, 1021, 1022, 1023}
FormatInputs == [1..Len(Sizes) -> FormatDigits]

IsZero(bytes) == \A j \in DOMAIN bytes : bytes[j] = 0

\* The position of the highest non-zero digit of a non-zero argument.
TopDigit(bytes) ==
    CHOOSE j \in DOMAIN bytes :
        bytes[j] # 0 /\ \A m \in (j + 1)..Len(bytes) : bytes[m] = 0

\* The integers just below 1024^5 whose Math.log is the same double as
\* Math.log(1024^5): ln(2^50 - d) = ln(2^50) - d * 2^-50 to first order, and
\* doubles between 32 and 64 are 2^-47 apart, so up to d = 3 the difference
\* is under half a step.
LogTies == 3

\* Math.floor(Math.log(bytes) / Math.log(k)) in doubles: the index of the
\* highest non-zero digit, except that within LogTies of 1024^5 the quotient
\* is 5.0.
LogFloor(bytes) ==
    IF /\ \A j \in 2..Len(bytes) : bytes[j] = K - 1
       /\ bytes[1] >= K - LogTies
    THEN Len(bytes)
    ELSE TopDigit(bytes) - 1

\* floor(200 * (bytes mod 1024^(j-1)) / 1024^(j-1)): what the digits below
\* position j add to twice the hundredths of bytes / 1024^(j-1).
RECURSIVE Carry200(_, _)
Carry200(bytes, j) ==
    IF j = 1 THEN 0
    ELSE (200 * bytes[j - 1] + Carry200(bytes, j - 1)) \div K

\* (bytes / Math.pow(k, i)).toFixed(2), as a number of hundredths: the
\* quotient is an exact double and toFixed rounds it to the nearest
\* hundredth, a tie upwards.
ToFixed2(bytes, i) ==
    ((IF i < Len(bytes) THEN 200 * bytes[i + 1] ELSE 0)
        + Carry200(bytes, i + 1) + 1) \div 2

\* parseFloat(...) + '': the decimals printed for a number of hundredths.
Decimals(h) ==
    IF h % 100 = 0 THEN <<>>
    ELSE IF h % 10 = 0 THEN <<(h % 100) \div 10>>
    ELSE <<(h % 100) \div 10, h % 10>>

\* The text whole[.decimals] unit.
Text(whole, decimals, unit) ==
    [whole |-> whole, decimals |-> decimals, unit |-> unit]

\* formatBytes(bytes)
FormatBytes(bytes) ==
    IF IsZero(bytes) THEN Text(0, <<>>, "B")
    ELSE LET i == LogFloor(bytes)
             h == ToFixed2(bytes, i)
         IN  Text(h \div 100, Decimals(h),
                  IF i + 1 \in DOMAIN Sizes THEN Sizes[i + 1] ELSE "undefined")

\* createRandomBufferData takes its size in bytes.
PatternSize == 1024 * 1024
BufferSizes ==
    (0..70) \cup {m * PatternSize + d : m \in 1..3, d \in (0 - 9)..9}
            \cup {16 * PatternSize, 256 * PatternSize}

AlignedSizeUp(size) == ((size + 3) \div 4) * 4

\* Math.floor(size / 4) * 4
AlignedSize(size) == (size \div 4) * 4

\* The 4-byte writes of `for (i = 0; i < limit; i += 4)` as one block.
RandomFill(limit) ==
    IF limit > 0 THEN <<[at |-> 0, len |-> limit]>> ELSE <<>>

\* The copies of `for (i = patternSize; i < alignedSize; i += patternSize)`:
\* the j-th copy is made at i = j * patternSize.
Tile(alignedSize) ==
    [j \in 1..((alignedSize - 1) \div PatternSize) |->
        [at |-> j * PatternSize,
         len |-> Min(PatternSize, alignedSize - j * PatternSize)]]

\* createRandomBufferData(size): the array's length and the blocks written.
CreateRandomBufferData(size) ==
    LET alignedSize == AlignedSize(size)
    IN  [length |-> alignedSize,
         blocks |-> IF alignedSize <= PatternSize
                    THEN RandomFill(alignedSize)
                    ELSE RandomFill(PatternSize) \o Tile(alignedSize)]

\* A call of a formatter with its argument, before (ok false) and after its
\* return.
UtilCall(op, arg, ok, ret) ==
    [op |-> op, b |-> NoBackend, ok |-> ok, warns |-> 0, arg |-> arg, ret |-> ret]

FormatBytesCall ==
    /\ lastOp.op = "formatBytes"
    /\ ~lastOp.ok
    /\ lastOp' = UtilCall("formatBytes", lastOp.arg, TRUE, FormatBytes(lastOp.arg))
    /\ UNCHANGED <<cur, supported, apiReady, canvas, bench, timers, loops,
                   inits, log, now, env>>

CreateRandomBufferDataCall ==
    /\ lastOp.op = "createRandomBufferData"
    /\ ~lastOp.ok
    /\ lastOp' = UtilCall("createRandomBufferData", lastOp.arg, TRUE,
                          CreateRandomBufferData(lastOp.arg))
    /\ UNCHANGED <<cur, supported, apiReady, canvas, bench, timers, loops,
                   inits, log, now, env>>

InitUtil ==
    /\ cur = NoBackend
    /\ supported = [b \in Backends |-> FALSE]
    /\ apiReady = FALSE
    /\ canvas = 1
    /\ bench = [b \in Backends |-> NewBenchmark]
    /\ timers = {}
    /\ loops = <<>>
    /\ inits = <<>>
    /\ log = <<>>
    /\ now = 1
    /\ env = Budget(0, 0, 0, 0)
    /\ lastOp \in {UtilCall("formatBytes", bytes, FALSE, "-") :
                      bytes \in FormatInputs}
               \cup {UtilCall("createRandomBufferData", size, FALSE, "-") :
                      size \in BufferSizes}

NextUtil ==
    \/ FormatBytesCall
    \/ CreateRandomBufferDataCall

SpecUtil == InitUtil /\ [][NextUtil]_vars

\* ------------------------------------------------------------- properties

Starts == {"startMemoryTest", "startStressTest"}

\* C1: for each backend, allocatedMemory equals the sum of the sizes of its
\* tracked buffers plus width*height*4 of its tracked textures, in every
\* state between tasks.
C1_MemoryMatchesTracked ==
    \A b \in Backends :
        bench[b].allocatedMemory =
            SumSizes(bench[b].buffers) + SumTextures(bench[b].textures)

\* A backend tracks buffers and textures after one of its allocations failed.
C1_Witness ==
    \E b \in Backends :
        /\ bench[b].buffers # <<>>
        /\ bench[b].textures # <<>>
        /\ \E i \in DOMAIN log :
              log[i].api = b /\ log[i].msg \in {"buffer_failed", "texture_failed"}

LiveLoops == {l \in DOMAIN loops : loops[l].pc # "done"}

\* C2: at most one escalation loop is live (started and not yet past its
\* final stopTest) at a time.
C2_OneLiveLoop == Cardinality(LiveLoops) <= 1

\* C3: startMemoryTest / startStressTest invoked while the current backend's
\* isRunning is true changes nothing of the backends, their timers, the log,
\* and starts no loop.
C3_StartWhileRunningIsNoOp ==
    [][(/\ lastOp'.op \in Starts
        /\ cur # NoBackend
        /\ bench[cur].isRunning)
       => /\ bench' = bench
          /\ timers' = timers
          /\ log' = log
          /\ loops' = loops
          /\ inits' = inits]_vars

\* A start command met a running backend and returned at its guard.
C3_Witness ==
    /\ lastOp.op \in Starts
    /\ ~lastOp.ok
    /\ cur # NoBackend
    /\ bench[cur].isRunning
    /\ LiveLoops # {}

\* C4 (amended): once an allocation of a loop has thrown, the loop has
\* caught it within the same task, has issued no allocation after the catch
\* (and, in a gradual test, none after the throw), has called stopTest
\* exactly once, and the log holds an error record written by the catch and
\* a final-bytes record after it.
C4_FailureEndsLoop ==
    \A l \in DOMAIN loops :
        LET L == loops[l]
        IN  L.threw =>
              /\ L.caught
              /\ L.pc = "done"
              /\ L.stops = 1
              /\ L.issued = L.issuedAtCatch
              /\ L.mode = "gradual" => L.afterThrow = 0
              /\ log[L.catchAt + 1].sev = "error"
              /\ log[L.catchAt + 1].msg = "loop_error"
              /\ \E i \in (L.catchAt + 1)..Len(log) : log[i].msg = "final"

\* A stress test has ended on a failure that was not the last of its batch.
C4_Witness ==
    \E l \in DOMAIN loops :
        /\ loops[l].mode = "stress"
        /\ loops[l].caught
        /\ loops[l].afterThrow > 0
        /\ loops[l].stops = 1

\* C4 as stated: after an allocation has thrown, the loop issues no further
\* allocation.
C4_NoAllocationAfterThrow ==
    \A l \in DOMAIN loops : loops[l].afterThrow = 0

\* The log records written from the start of test L to its final stopTest.
Segment(L) == (L.logStart + 1)..L.logEnd

CountMsg(L, msg) == Cardinality({i \in Segment(L) : log[i].msg = msg})

CountSev(L, sev) == Cardinality({i \in Segment(L) : log[i].sev = sev})

\* The sizes declared by the success records log[i..j], summed.
RECURSIVE DeclaredSum(_, _)
DeclaredSum(i, j) ==
    IF i > j THEN 0
    ELSE (IF log[j].msg \in {"buffer", "texture"} THEN log[j].val ELSE 0)
         + DeclaredSum(i, j - 1)

FinalRecord(L) == CHOOSE i \in Segment(L) : log[i].msg = "final"

\* A gradual test started on an empty backend and left alone, whose first 12
\* cycles succeeded and whose 13th allocateBuffer failed.
Scenario(L) ==
    /\ L.mode = "gradual"
    /\ L.startedEmpty
    /\ L.iters = 12
    /\ L.issued = 25
    /\ L.threw
    /\ \A i \in (L.logStart + 1)..Len(log) : log[i].msg # "clearing"

\* C5 (amended): in that scenario the test's log holds exactly 12 buffer and
\* 12 texture success records, exactly two error records (the backend's and
\* the controller's), exactly one 'Test completed' record, and the final
\* allocatedMemory is the sum of the declared sizes of the 12 pairs.
C5_TwelveCycles ==
    \A l \in DOMAIN loops :
        LET L == loops[l]
        IN  Scenario(L) =>
              /\ L.pc = "done"
              /\ CountMsg(L, "buffer") = 12
              /\ CountMsg(L, "texture") = 12
              /\ CountSev(L, "error") = 2
              /\ CountMsg(L, "buffer_failed") = 1
              /\ CountMsg(L, "loop_error") = 1
              /\ CountMsg(L, "completed") = 1
              /\ CountMsg(L, "final") = 1
              /\ log[FinalRecord(L)].val = DeclaredSum(L.logStart + 1, L.logEnd)
              /\ bench[L.home].allocatedMemory
                    = DeclaredSum(L.logStart + 1, L.logEnd)

\* The scenario has run to its end.
C5_Witness ==
    \E l \in DOMAIN loops :
        /\ Scenario(loops[l])
        /\ loops[l].pc = "done"
        /\ bench[loops[l].home].allocatedMemory > 12 * MiB

\* C5 as stated: the scenario's log holds exactly one error record.
C5_OneErrorRecord ==
    \A l \in DOMAIN loops :
        Scenario(loops[l]) => CountSev(loops[l], "error") = 1

\* switchAPI stopped a test of backend b, and no test was started on b since.
StoppedBySwitch(b) ==
    \E i \in DOMAIN log :
        /\ log[i].api = b
        /\ log[i].msg = "switch_stop"
        /\ \A j \in (i + 1)..Len(log) :
              ~(log[j].api = b /\ log[j].msg \in {"gradual", "stress"})

\* C6: no redraw tick of a backend fires after switchAPI stopped its running
\* test (and before a test is started on it again).
C6_NoTickAfterSwitch ==
    lastOp.op = "tick" => ~StoppedBySwitch(lastOp.b)

Cleared(w, b) ==
    /\ w.bench[b].allocatedMemory = 0
    /\ w.bench[b].buffers = <<>>
    /\ w.bench[b].textures = <<>>
    /\ w.bench[b].renderInterval = 0
    /\ \A t \in w.timers : t.owner # b

\* C7: after clearMemory the backend has allocatedMemory 0, no tracked
\* buffer or texture and no redraw timer; a second clearMemory changes
\* nothing of that; a successful allocation that follows gives count 1 and
\* allocatedMemory equal to the declared size of that resource.
C7_ClearResets ==
    /\ lastOp.op = "clearMemory" /\ cur # NoBackend => Cleared(World, cur)
    /\ \A b \in Backends :
          LET w1 == ClearBackend(World, b)
              w2 == ClearBackend(w1, b)
              rb == TryBuffer(w1, b, MiB, TRUE)
              rt == TryTexture(w1, b, 512, 512, TRUE)
          IN  /\ Cleared(w1, b)
              /\ w2.bench = w1.bench
              /\ w2.timers = w1.timers
              /\ rb.ok => /\ Len(rb.w.bench[b].buffers) = 1
                          /\ rb.w.bench[b].textures = <<>>
                          /\ rb.w.bench[b].allocatedMemory = MiB
              /\ rt.ok => /\ Len(rt.w.bench[b].textures) = 1
                          /\ rt.w.bench[b].buffers = <<>>
                          /\ rt.w.bench[b].allocatedMemory = (512 * 512 * 4) \div 16

\* A backend that tracked resources was cleared during its test, and the
\* test's next allocation is the only buffer it tracks.
C7_Witness ==
    \E b \in Backends, i \in DOMAIN log :
        /\ log[i].api = b
        /\ log[i].msg = "clearing"
        /\ \E k \in 1..(i - 1) : log[k].api = b /\ log[k].msg = "texture"
        /\ \E j \in (i + 1)..Len(log) : log[j].api = b /\ log[j].msg = "buffer"
        /\ Len(bench[b].buffers) = 1
        /\ bench[b].allocatedMemory = MiB

C9_NoIterationOverLimit ==
    \A l \in DOMAIN loops : ~loops[l].overLimit

\* C10 (amended): a gradual test requests its first buffer at 1 MiB; at the
\* end of an iteration the requested size is multiplied by 1.1, capped at
\* 256 MiB, exactly when the tracked buffer count is a multiple of 10; it
\* never decreases and never exceeds 256 MiB.  When the backend was empty at
\* the start and its tracked buffers are those of this test's iterations,
\* the first 10 requests are 1 MiB and the 11th is min(1 MiB * 1.1, 256 MiB).
C10_BufferSizeGrowth ==
    /\ \A l \in DOMAIN loops :
          LET L == loops[l]
          IN  L.mode = "gradual" =>
                /\ L.size >= MiB
                /\ L.size <= 256 * MiB
                /\ L.iters = 0 => L.size = MiB
                /\ L.requests # <<>> => L.requests[1] = MiB
                /\ \A i, j \in DOMAIN L.requests :
                      i <= j => L.requests[i] <= L.requests[j]
                /\ L.iters > 0 =>
                      /\ L.size >= L.sizeBefore
                      /\ L.size = IF L.countAtEnd % 10 = 0
                                  THEN Min((L.sizeBefore * 11) \div 10, 256 * MiB)
                                  ELSE L.sizeBefore
                /\ L.startedEmpty /\ L.iters > 0 /\ L.countAtEnd = L.iters =>
                      \A i \in DOMAIN L.requests :
                          L.requests[i] = IF i <= 10 THEN MiB
                                          ELSE (MiB * 11) \div 10
    /\ \A k \in {232 * MiB, 233 * MiB, 256 * MiB} :
          GrowSize(k) >= k /\ GrowSize(k) <= 256 * MiB

\* An undisturbed gradual test has requested its 11th buffer, at 1.1 MiB.
C10_Witness ==
    \E l \in DOMAIN loops :
        /\ loops[l].mode = "gradual"
        /\ loops[l].startedEmpty
        /\ loops[l].countAtEnd = loops[l].iters
        /\ Len(loops[l].requests) = 11
        /\ loops[l].requests[11] = (MiB * 11) \div 10
        /\ loops[l].requests[10] = MiB

\* C10 as stated: in every gradual test started on an empty backend the
\* first 10 buffers are requested at 1 MiB and the 11th at 1.1 MiB.
C10_EleventhRequest ==
    \A l \in DOMAIN loops :
        LET L == loops[l]
        IN  L.mode = "gradual" /\ L.startedEmpty /\ Len(L.requests) = 11 =>
              /\ \A i \in 1..10 : L.requests[i] = MiB
              /\ L.requests[11] = Min((MiB * 11) \div 10, 256 * MiB)

\* The loops that ran in the step: a loop started by it, or one whose record
\* it changed.
Ran(l) == l \notin DOMAIN loops \/ loops'[l] # loops[l]

\* C11: every texture a gradual test allocates is square, and its side is
\* 512 when the backend tracked c <= 5 textures immediately before the
\* allocation, 1024 when 5 < c <= 15, 2048 when 15 < c <= 25, 4096 when
\* c > 25; a task of a gradual test adds at most one texture.
C11_GradualTextureSide ==
    [][\A l \in DOMAIN loops' :
          loops'[l].mode = "gradual" /\ Ran(l) =>
            \A b \in Backends :
               LET c == Len(bench[b].textures)
                   side == IF c <= 5 THEN 512
                           ELSE IF c <= 15 THEN 1024
                           ELSE IF c <= 25 THEN 2048
                           ELSE 4096
               IN  Len(bench'[b].textures) > c =>
                     /\ Len(bench'[b].textures) = c + 1
                     /\ bench'[b].textures[c + 1].w = side
                     /\ bench'[b].textures[c + 1].h = side]_vars

\* A single gradual test has allocated 27 textures: the side changed at the
\* 7th, the 17th and the 27th.
C11_Witness ==
    /\ Len(loops) = 1
    /\ loops[1].mode = "gradual"
    /\ \E b \in Backends :
          /\ Len(bench[b].textures) = 27
          /\ bench[b].textures[6].w = 512
          /\ bench[b].textures[7].w = 1024
          /\ bench[b].textures[16].w = 1024
          /\ bench[b].textures[17].w = 2048
          /\ bench[b].textures[26].w = 2048
          /\ bench[b].textures[27].w = 4096

\* s extends r by n elements.
Extends(s, r, n) ==
    /\ Len(s) = Len(r) + n
    /\ \A i \in DOMAIN r : s[i] = r[i]

TexturesSinceClear(b) ==
    LET clears == {i \in DOMAIN log : log[i].api = b /\ log[i].msg = "clearing"}
    IN  Cardinality({i \in DOMAIN log :
                        /\ log[i].api = b
                        /\ log[i].msg = "texture"
                        /\ \A k \in clears : k < i})

\* C13: after N >= 1 successful texture allocations with no clear a backend
\* tracks N textures, and renderTextureGrid uses as grid side the least s
\* with s * s >= N (3 for 5, 4 for 16, 5 for 17); it draws every index below
\* N, index i in cell (i div s, i mod s) of the s by s grid.
C13_GridHoldsEveryTexture ==
    /\ GridSize(5) = 3 /\ GridSize(16) = 4 /\ GridSize(17) = 5
    /\ \A b \in Backends :
          LET N == Len(bench[b].textures)
              s == GridSize(N)
              ready == [bench[b].renderer EXCEPT !.ready = TRUE]
              cells == RenderTextureGrid(ready, bench[b].textures)
          IN  /\ N = TexturesSinceClear(b)
              /\ N >= 1 =>
                    /\ s * s >= N
                    /\ (s - 1) * (s - 1) < N
                    /\ {c.i : c \in cells} = 0..(N - 1)
                    /\ \A c \in cells :
                          /\ c.i < s * s
                          /\ c.row = c.i \div s /\ c.row < s
                          /\ c.col = c.i % s /\ c.col < s
    /\ lastOp.op = "tick" /\ lastOp.ok =>
          Cardinality(RenderTextureGrid(bench[lastOp.b].renderer,
                                        bench[lastOp.b].textures))
             = Len(bench[lastOp.b].textures)

\* A redraw tick has drawn 17 tracked textures on a grid of side 5.
C13_Witness ==
    /\ lastOp.op = "tick"
    /\ lastOp.ok
    /\ Len(bench[lastOp.b].textures) = 17
    /\ TexturesSinceClear(lastOp.b) = 17
    /\ \E c \in RenderTextureGrid(bench[lastOp.b].renderer,
                                  bench[lastOp.b].textures) :
          c.i = 16 /\ c.row = 3 /\ c.col = 1

\* The backend on which test L made its final stopTest call: the one that
\* wrote the last record of the test's log segment.
StoppedOn(L) == log[L.logEnd].api

\* C14: every test invocation ends with a stopTest() call on the backend
\* whose run flag it set when it started, also when switchAPI changed the
\* current backend while the loop was sleeping.
C14_StopsOnHome ==
    \A l \in DOMAIN loops :
        loops[l].pc = "done" =>
            /\ loops[l].stops = 1
            /\ StoppedOn(loops[l]) = loops[l].home

\* The live redraw interval timers of backend b.
TimersOf(b) == {t \in timers : t.owner = b}

\* C15: whatever startTextureDisplay, stopTextureDisplay, clearMemory and
\* stopTest calls a backend has received, at most one redraw interval timer
\* of it is live, the one renderInterval names; after startTextureDisplay
\* exactly one is, also when one was scheduled at the call.
C15_OneRedrawTimer ==
    /\ \A b \in Backends :
          /\ Cardinality(TimersOf(b)) <= 1
          /\ TimersOf(b) = IF bench[b].renderInterval # 0
                           THEN {[id |-> bench[b].renderInterval, owner |-> b]}
                           ELSE {}
    /\ lastOp.op = "startTextureDisplay" =>
          Cardinality(TimersOf(lastOp.b)) = 1
    /\ lastOp.op \in {"stopTextureDisplay", "stopTest", "clearMemory"}
          /\ lastOp.b \in Backends => TimersOf(lastOp.b) = {}

\* startTextureDisplay was called on a backend that had an interval
\* scheduled, and one timer of it is live.
C15_Witness ==
    /\ lastOp.op = "startTextureDisplay"
    /\ lastOp.ok
    /\ Cardinality(TimersOf(lastOp.b)) = 1
    /\ \E i \in DOMAIN log : log[i].api = lastOp.b /\ log[i].msg = "completed"

\* The records of backend b with message msg.
Records(b, msg) == {i \in DOMAIN log : log[i].api = b /\ log[i].msg = msg}

\* C16: at the end of a task in which stopTest() of a backend returned, the
\* backend's isRunning is false, its renderInterval is null and no interval
\* timer of it is live; a redraw tick of a backend fires only when
\* startTextureDisplay was called on it after its last stopTest.
C16_StopTestCancelsRedraw ==
    /\ [][\A b \in Backends :
            (\E i \in (Len(log) + 1)..Len(log') :
                log'[i].api = b /\ log'[i].msg = "completed")
            => /\ ~bench'[b].isRunning
               /\ bench'[b].renderInterval = 0
               /\ {t \in timers' : t.owner = b} = {}]_vars
    /\ [](lastOp.op = "tick" =>
            /\ Records(lastOp.b, "display") # {}
            /\ \A i \in Records(lastOp.b, "completed") :
                  \E j \in Records(lastOp.b, "display") : j > i)

\* A test that had its redraw interval scheduled has ended: stopTest has
\* returned, the backend is not running and owns no timer.
C16_Witness ==
    /\ lastOp.op \in {"wake", "switchAPI"}
    /\ \E b \in Backends :
          /\ Records(b, "display") # {}
          /\ \E i \in Records(b, "tip") :
                /\ \A j \in Records(b, "display") : j < i
                /\ i >= Len(log) - 1
          /\ ~bench[b].isRunning
          /\ bench[b].renderInterval = 0
          /\ TimersOf(b) = {}
          /\ bench[b].textures # <<>>

\* The sizes declared by the success records of backend b in L[i..j], summed.
RECURSIVE SumDeclared(_, _, _, _)
SumDeclared(L, b, i, j) ==
    IF i > j THEN 0
    ELSE (IF L[j].api = b /\ L[j].msg \in {"buffer", "texture"}
          THEN L[j].val ELSE 0)
         + SumDeclared(L, b, i, j - 1)

\* What a failed allocate call leaves: the world as it was, plus one error
\* record of the backend; the error goes to the caller.
FailsClean(r, b, msg) ==
    /\ ~r.ok
    /\ r.w.bench = bench
    /\ r.w.timers = timers
    /\ r.w.log = Append(log, [api |-> b, msg |-> msg, sev |-> "error", val |-> 0])

\* C17: an allocateBuffer / allocateTexture call whose native creation or
\* upload throws leaves the backend's tracked buffers and textures, its
\* allocatedMemory and its lastAllocationTime unchanged, appends one
\* error-severity record to the log and rethrows to its caller.  Over a
\* whole task: a backend's tracked sequences and allocatedMemory grow by
\* exactly what its success records declare.
C17_FailedAllocationChangesNothing ==
    /\ [](\A b \in Backends, ok \in BOOLEAN :
            ~CanCreate(World, b, ok) =>
               /\ FailsClean(TryBuffer(World, b, MiB, ok), b, "buffer_failed")
               /\ FailsClean(TryTexture(World, b, 512, 512, ok), b,
                             "texture_failed"))
    /\ [](\A i \in DOMAIN log :
            log[i].msg \in {"buffer_failed", "texture_failed"} =>
               log[i].sev = "error")
    /\ [][\A b \in Backends :
            LET new == (Len(log) + 1)..Len(log')
                New(msg) == {i \in new : log'[i].api = b /\ log'[i].msg = msg}
            IN  New("clearing") = {} =>
                  /\ Len(bench'[b].buffers)
                        = Len(bench[b].buffers) + Cardinality(New("buffer"))
                  /\ Len(bench'[b].textures)
                        = Len(bench[b].textures) + Cardinality(New("texture"))
                  /\ bench'[b].allocatedMemory
                        = bench[b].allocatedMemory
                          + SumDeclared(log', b, Len(log) + 1, Len(log'))
                  /\ (/\ New("buffer") = {}
                      /\ New("texture") = {}
                      /\ lastOp'.op \notin Starts)
                     => bench'[b].lastAllocationTime
                           = bench[b].lastAllocationTime]_vars

\* A gradual test's allocateTexture failed right after its allocateBuffer
\* succeeded: the buffer is tracked, no texture is, and allocatedMemory is
\* the buffer's size.
C17_Witness ==
    \E b \in Backends, i \in DOMAIN log :
        /\ i > 1 /\ i < Len(log)
        /\ log[i].api = b
        /\ log[i].msg = "texture_failed"
        /\ log[i].sev = "error"
        /\ log[i - 1].msg = "buffer"
        /\ log[i + 1].msg = "loop_error"
        /\ Records(b, "clearing") = {}
        /\ Len(bench[b].buffers) = 1
        /\ bench[b].textures = <<>>
        /\ bench[b].allocatedMemory = MiB

\* The records initialize() of a backend writes, one at least per call that
\* gets past its `if (this.initialized)`.
InitRecords == {"init_ok", "init_error", "no_context", "no_adapter"}

\* C18: a native resource is created on a backend only when its initialized
\* flag was true, or initialize() ran on it first: in the task of the
\* creation, before it (the backend held no device/context when the task
\* began, or initialize() wrote its record earlier in the task).
C18_InitializeBeforeCreation ==
    [][\A b \in Backends :
          \A i \in (Len(log) + 1)..Len(log') :
             log'[i].api = b /\ log'[i].msg \in {"buffer", "texture"} =>
                \/ bench[b].initialized
                \/ bench[b].device = 0
                \/ \E j \in (Len(log) + 1)..(i - 1) :
                      log'[j].api = b /\ log'[j].msg \in InitRecords]_vars

\* C19: initialize() called on a backend whose initialize() has returned
\* true (no switchAPI since) returns true within the call, acquires no
\* device/context, builds no renderer, logs nothing and leaves no call
\* suspended.
C19_InitializeIdempotent ==
    [][\A b \in Backends :
          (/\ bench[b].initialized
           /\ now' # now
           /\ lastOp'.op \in {"initialize", "initialize_await"}
           /\ lastOp'.b = b)
          => /\ lastOp' = Op("initialize", b, TRUE)
             /\ bench' = bench
             /\ log' = log
             /\ inits' = inits
             /\ timers' = timers]_vars

\* initialize() was called again on the WebGPU backend after it had returned
\* true: still the first device, one success record.
C19_Witness ==
    /\ lastOp = Op("initialize", "webgpu", TRUE)
    /\ bench["webgpu"].initialized
    /\ bench["webgpu"].device = 1
    /\ bench["webgpu"].renderer.ready
    /\ Cardinality(Records("webgpu", "init_ok")) = 1
    /\ inits = <<>>

\* C20: checkSupport() and initialize() report every failure as false with
\* an error record of the backend in the log, and after an initialize()
\* that failed the backend's initialized flag is false.
C20_FailedInitializeLeavesFlagFalse ==
    /\ apiReady =>
          \A b \in Backends :
              ~supported[b] =>
                  \E i \in Records(b, "no_support") : log[i].sev = "error"
    /\ lastOp.op = "initResolve" /\ ~lastOp.ok =>
          /\ \E i \in DOMAIN log :
                /\ log[i].api = "webgpu"
                /\ log[i].msg \in InitRecords \ {"init_ok"}
                /\ log[i].sev = "error"
          /\ ~bench["webgpu"].initialized

\* r is s, or s with handles appended at its end.
IsPrefix(s, r) ==
    /\ Len(s) <= Len(r)
    /\ \A i \in DOMAIN s : r[i] = s[i]

\* Backend b wrote a record with message msg in the step.
Wrote(b, msg) ==
    \E i \in (Len(log) + 1)..Len(log') : log'[i].api = b /\ log'[i].msg = msg

SameTracked(w, b) ==
    /\ w.bench[b].buffers = bench[b].buffers
    /\ w.bench[b].textures = bench[b].textures

\* C21: a backend's tracked buffer and texture sequences change only by
\* handles appended at the end, one per successful allocation, or by being
\* emptied by clearMemory; stopTest, switchAPI, a failed allocation and a
\* redraw tick leave both sequences and their order unchanged.
C21_SequencesAppendOnly ==
    /\ [][\A b \in Backends :
            IF Wrote(b, "clearing")
            THEN bench'[b].buffers = <<>> /\ bench'[b].textures = <<>>
            ELSE /\ IsPrefix(bench[b].buffers, bench'[b].buffers)
                 /\ IsPrefix(bench[b].textures, bench'[b].textures)
                 /\ Len(bench'[b].buffers) - Len(bench[b].buffers)
                       = Cardinality({i \in (Len(log) + 1)..Len(log') :
                            log'[i].api = b /\ log'[i].msg = "buffer"})
                 /\ Len(bench'[b].textures) - Len(bench[b].textures)
                       = Cardinality({i \in (Len(log) + 1)..Len(log') :
                            log'[i].api = b /\ log'[i].msg = "texture"})]_vars
    /\ [][lastOp'.op \in {"switchAPI", "tick"} /\ lastOp' # lastOp =>
            \A b \in Backends :
               /\ bench'[b].buffers = bench[b].buffers
               /\ bench'[b].textures = bench[b].textures]_vars
    /\ [](\A b \in Backends :
            /\ SameTracked(StopTest(World, b), b)
            /\ \A api \in Backends, io \in InitOutcomesGL :
                  SameTracked(Switch(World, api, canvas + 1, io).w, b)
            /\ \A ok \in BOOLEAN :
                  ~CanCreate(World, b, ok) =>
                     /\ SameTracked(TryBuffer(World, b, MiB, ok).w, b)
                     /\ SameTracked(TryTexture(World, b, 512, 512, ok).w, b))

\* switchAPI has stopped a running test of a backend that tracks several
\* buffers and textures, none of them cleared since.
C21_Witness ==
    /\ lastOp.op = "switchAPI"
    /\ \E b \in Backends :
          /\ Records(b, "switch_stop") # {}
          /\ Records(b, "clearing") = {}
          /\ log[Len(log)].api # b \/ log[Len(log)].msg \in {"tip", "switched"}
          /\ Len(bench[b].buffers) >= 2
          /\ Len(bench[b].textures) >= 2
          /\ Len(bench[b].buffers) = Cardinality(Records(b, "buffer"))
          /\ Len(bench[b].textures) = Cardinality(Records(b, "texture"))

\* C22 (amended): a backend's allocatedMemory decreases only in a
\* clearMemory task, which sets it to 0, whether or not the backend's run
\* flag is true; in every other task it stays or grows.
C22_MemoryDecreasesOnlyByClear ==
    [][\A b \in Backends :
          /\ Wrote(b, "clearing") =>
                /\ lastOp'.op = "clearMemory"
                /\ lastOp'.b = b
                /\ bench'[b].allocatedMemory = 0
          /\ ~Wrote(b, "clearing") =>
                bench'[b].allocatedMemory >= bench[b].allocatedMemory]_vars

\* clearMemory has run during a test: the backend that had allocated is
\* still running, with allocatedMemory 0.
C22_Witness ==
    /\ lastOp.op = "clearMemory"
    /\ cur # NoBackend
    /\ bench[cur].isRunning
    /\ bench[cur].allocatedMemory = 0
    /\ \E i \in Records(cur, "texture"), j \in Records(cur, "clearing") : i < j
    /\ \E l \in DOMAIN loops : loops[l].pc = "sleep" /\ loops[l].home = cur

\* C22 as stated: while a backend's run flag is true its allocatedMemory
\* never decreases.
C22_NoDecreaseWhileRunning ==
    [][\A b \in Backends :
          bench[b].isRunning =>
             bench'[b].allocatedMemory >= bench[b].allocatedMemory]_vars


\* C23: no exception escapes a command entry point: every clearMemory task
\* on a backend runs to its end, where it writes its closing record, also
\* when renderer.clear() fails.
C23_NoExceptionEscapes ==
    lastOp.op = "clearMemory" /\ lastOp.b \in Backends =>
        /\ lastOp.ok
        /\ Len(log) > 0
        /\ log[Len(log)].msg = "cleared"
        /\ log[Len(log)].api = lastOp.b


\* C24: every failure event appends a record of severity error or warning
\* to the log sink; in particular a task in which a grid-render pass failed
\* appends a warning record.
C24_FailuresAreLogged ==
    [][lastOp'.op = "tick" /\ lastOp'.warns > 0 /\ lastOp' # lastOp =>
          \E i \in (Len(log) + 1)..Len(log') :
             /\ log'[i].api = lastOp'.b
             /\ log'[i].sev = "warning"]_vars


\* C25: switchAPI replaces the surface and leaves no backend initialized
\* except the selected one when its initialize() succeeded in the task; in
\* every reachable state an initialized backend's context and renderer are
\* built against the current surface, never a discarded one.
C25_InitializedOnCurrentSurface ==
    /\ [][canvas' # canvas =>
             /\ lastOp'.op = "switchAPI"
             /\ \A b \in Backends :
                   bench'[b].initialized =>
                      /\ b = cur'
                      /\ bench'[b].renderer.canvas = canvas']_vars
    /\ [](\A b \in Backends :
             bench[b].initialized =>
                /\ bench[b].device # 0
                /\ bench[b].renderer.dev = bench[b].device
                /\ bench[b].renderer.canvas = canvas
                /\ b = "webgl2" => bench[b].device = canvas)

\* A WebGPU initialize() that was overtaken by a later switchAPI has
\* settled: the backend is initialized on the surface of the later switch
\* while that switch's own initialize() is still suspended.
C25_Witness ==
    /\ bench["webgpu"].initialized
    /\ bench["webgpu"].renderer.canvas = canvas
    /\ Len(inits) > 0
    /\ Cardinality({i \in DOMAIN log : log[i].msg = "init_ok"}) = 1
    /\ lastOp.op = "initResolve"

\* World w holds for backend o what the current state holds.
Untouched(w, o) ==
    /\ w.bench[o].buffers = bench[o].buffers
    /\ w.bench[o].textures = bench[o].textures
    /\ w.bench[o].allocatedMemory = bench[o].allocatedMemory
    /\ w.bench[o].isRunning = bench[o].isRunning
    /\ w.bench[o].renderInterval = bench[o].renderInterval
    /\ {t \in w.timers : t.owner = o} = TimersOf(o)

\* C26: allocateBuffer, allocateTexture, clearMemory, startTextureDisplay
\* and stopTest applied to one backend leave the other backend's tracked
\* sequences, allocatedMemory, isRunning and redraw timer unchanged; so a
\* clearMemory command changes nothing of the backend it is not applied to.
C26_OtherBackendUntouched ==
    /\ [](\A b \in Backends : \A o \in Backends \ {b} :
             /\ \A ok \in BOOLEAN :
                   /\ Untouched(TryBuffer(World, b, MiB, ok).w, o)
                   /\ Untouched(TryTexture(World, b, 512, 512, ok).w, o)
             /\ Untouched(ClearBackend(World, b), o)
             /\ Untouched(StartTextureDisplay(World, b), o)
             /\ Untouched(StopTest(World, b), o))
    /\ [][lastOp'.op \in {"allocateBuffer", "allocateTexture", "allocate_await",
                          "allocate_return", "clearMemory",
                          "startTextureDisplay", "stopTest"} =>
             \A o \in Backends \ {lastOp'.b} :
                /\ Untouched([bench |-> bench', timers |-> timers',
                              log |-> log'], o)
                /\ \A i \in (Len(log) + 1)..Len(log') : log'[i].api # o]_vars

\* clearMemory has emptied one backend that tracked a texture while the
\* other backend keeps its tracked texture and its redraw timer.
C26_Witness ==
    /\ lastOp.op = "clearMemory"
    /\ \E i \in Records(lastOp.b, "texture"),
          j \in Records(lastOp.b, "clearing") : i < j
    /\ bench[lastOp.b].textures = <<>>
    /\ \E o \in Backends \ {lastOp.b} :
          /\ Len(bench[o].textures) > 0
          /\ bench[o].allocatedMemory > 0
          /\ TimersOf(o) # {}


\* C27: clearMemory attempts to destroy every tracked buffer and every
\* tracked texture exactly once, in order, also when some destroys throw,
\* and ends with both sequences empty and allocatedMemory 0 whichever
\* destroys failed.
C27_ClearDestroysEverything ==
    /\ [](\A b \in Backends :
          \A bt \in SUBSET (1..Len(bench[b].buffers)),
             tt \in SUBSET (1..Len(bench[b].textures)) :
             LET db == DestroyAll(bench[b].buffers, bt)
                 dt == DestroyAll(bench[b].textures, tt)
                 w == ClearBackend(World, b)
             IN  /\ Len(db) = Len(bench[b].buffers)
                 /\ \A i \in DOMAIN db : db[i].handle = bench[b].buffers[i]
                 /\ Warned(db) = Cardinality(bt)
                 /\ Len(dt) = Len(bench[b].textures)
                 /\ \A i \in DOMAIN dt : dt[i].handle = bench[b].textures[i]
                 /\ Warned(dt) = Cardinality(tt)
                 /\ w.bench[b].buffers = <<>>
                 /\ w.bench[b].textures = <<>>
                 /\ w.bench[b].allocatedMemory = 0)
    /\ [][\A b \in Backends :
             Wrote(b, "clearing") =>
                /\ lastOp'.op = "clearMemory"
                /\ lastOp'.warns <= Len(bench[b].buffers) + Len(bench[b].textures)
                /\ bench'[b].buffers = <<>>
                /\ bench'[b].textures = <<>>
                /\ bench'[b].allocatedMemory = 0]_vars

\* clearMemory has run on a backend tracking two buffers and two textures
\* with every destroy throwing, and the backend is empty.
C27_Witness ==
    /\ lastOp.op = "clearMemory"
    /\ lastOp.warns = 4
    /\ lastOp.ok
    /\ bench[lastOp.b].buffers = <<>>
    /\ bench[lastOp.b].textures = <<>>
    /\ bench[lastOp.b].allocatedMemory = 0
    /\ Cardinality(Records(lastOp.b, "buffer")) = 2
    /\ Cardinality(Records(lastOp.b, "texture")) = 2


\* The number of hundredths a text stands for.
Hundredths(t) ==
    100 * t.whole
       + (IF Len(t.decimals) = 0 THEN 0
          ELSE IF Len(t.decimals) = 1 THEN 10 * t.decimals[1]
          ELSE 10 * t.decimals[1] + t.decimals[2])

\* C28: formatBytes(0) is '0 B'; for every integer n with 1 <= n < 1024^5
\* the unit is the largest of B, KB, MB, GB, TB whose base-1024 scale does
\* not exceed n and the number is n over that scale rounded to at most 2
\* decimals; 1536 gives '1.5 KB', 1048576 '1 MB' and 1073741824 '1 GB'.
C28_FormatBytes ==
    lastOp.op = "formatBytes" /\ lastOp.ok =>
       LET n == lastOp.arg
           t == lastOp.ret
       IN  /\ IsZero(n) => t = Text(0, <<>>, "B")
           /\ ~IsZero(n) =>
                 /\ t.unit = Sizes[TopDigit(n)]
                 /\ Len(t.decimals) <= 2
                 /\ Len(t.decimals) > 0 => t.decimals[Len(t.decimals)] # 0
                 /\ 200 * n[TopDigit(n)] + Carry200(n, TopDigit(n))
                       \in {2 * Hundredths(t) - 1, 2 * Hundredths(t)}
           /\ n = <<512, 1, 0, 0, 0>> => t = Text(1, <<5>>, "KB")
           /\ n = <<0, 0, 1, 0, 0>> => t = Text(1, <<>>, "MB")
           /\ n = <<0, 0, 0, 1, 0>> => t = Text(1, <<>>, "GB")

\* C29: for every non-negative integer size createRandomBufferData(size)
\* returns a byte sequence of length size - size mod 4, written from its
\* start to its end, for sizes up to 1 MiB and for larger sizes filled by
\* tiling.
C29_BufferDataLength ==
    lastOp.op = "createRandomBufferData" /\ lastOp.ok =>
       LET size == lastOp.arg
           data == lastOp.ret
       IN  /\ data.length = size - (size % 4)
           /\ data.length <= size /\ size - data.length < 4
           /\ \A j \in DOMAIN data.blocks :
                 /\ data.blocks[j].len > 0
                 /\ data.blocks[j].len <= PatternSize
                 /\ data.blocks[j].at =
                       (IF j = 1 THEN 0
                        ELSE data.blocks[j - 1].at + data.blocks[j - 1].len)
           /\ data.length > 0 =>
                 /\ data.blocks # <<>>
                 /\ data.blocks[Len(data.blocks)].at
                       + data.blocks[Len(data.blocks)].len = data.length
           /\ data.length = 0 => data.blocks = <<>>

\* A size above 1 MiB that is no multiple of 4 has been filled: the array
\* is the size rounded down and its last tile is a partial one.
C29_Witness ==
    /\ lastOp.op = "createRandomBufferData"
    /\ lastOp.ok
    /\ lastOp.arg > 2 * PatternSize
    /\ lastOp.arg % 4 = 3
    /\ lastOp.ret.length = lastOp.arg - 3
    /\ Len(lastOp.ret.blocks) = 3
    /\ lastOp.ret.blocks[3].len < PatternSize


\* C30: a redraw tick, whether its grid pass succeeds, is a no-op or fails
\* part-way, leaves every backend's tracked sequences, allocatedMemory and
\* isRunning unchanged and leaves the redraw timer scheduled: a failed pass
\* stops neither the test nor later ticks.
C30_TickChangesNothing ==
    /\ [][lastOp'.op = "tick" =>
             /\ \A b \in Backends :
                   /\ bench'[b].buffers = bench[b].buffers
                   /\ bench'[b].textures = bench[b].textures
                   /\ bench'[b].allocatedMemory = bench[b].allocatedMemory
                   /\ bench'[b].isRunning = bench[b].isRunning
                   /\ bench'[b].renderInterval = bench[b].renderInterval
             /\ timers' = timers
             /\ loops' = loops
             /\ log' = log]_vars
    /\ [](lastOp.op = "tick" =>
             /\ TimersOf(lastOp.b) # {}
             /\ lastOp.warns > 0 =>
                   /\ ~lastOp.ok
                   /\ Len(bench[lastOp.b].textures) > 0
                   /\ bench[lastOp.b].renderer.ready
             /\ lastOp.ok =>
                   /\ Len(bench[lastOp.b].textures) > 0
                   /\ bench[lastOp.b].renderer.ready
             /\ lastOp.warns = 0 /\ ~lastOp.ok =>
                   \/ Len(bench[lastOp.b].textures) = 0
                   \/ ~bench[lastOp.b].renderer.ready)

\* A grid pass over two textures has failed during a running test: the test
\* still runs, its loop is asleep and the redraw timer is scheduled.
C30_Witness ==
    /\ lastOp.op = "tick"
    /\ lastOp.warns = 1
    /\ bench[lastOp.b].isRunning
    /\ Len(bench[lastOp.b].textures) = 2
    /\ \E t \in timers :
          t.owner = lastOp.b /\ t.id = bench[lastOp.b].renderInterval
    /\ \E l \in DOMAIN loops : loops[l].pc = "sleep"


\* C31: in both renderers texture index i of N is drawn in the cell with row
\* i div s and column i mod s of the s x s grid, distinct indices occupy
\* distinct cells, index 0 is in the top-left cell, and the two renderers
\* place every index in the same on-screen cell.
C31_SameCellInBothRenderers ==
    lastOp.op = "tick" /\ lastOp.ok =>
       LET b == lastOp.b
           s == GridSize(Len(bench[b].textures))
           drawn == ScreenCells(b, bench[b].renderer, bench[b].textures)
       IN  /\ \A d \in drawn :
                 /\ d.cell.top = d.i \div s
                 /\ d.cell.left = d.i % s
                 /\ d.i = 0 => d.cell = [left |-> 0, top |-> 0]
           /\ \A d, e \in drawn : d.cell = e.cell => d.i = e.i
           /\ \A o \in Backends :
                 ScreenCells(o, bench[b].renderer, bench[b].textures) = drawn


\* ---------------------------------------------------------------- C32

AttemptMsgs == {"buffer", "buffer_failed", "texture", "texture_failed"}

\* The allocate calls of loop l that are suspended in a lazy initialize.
Suspended(q, l) ==
    Cardinality({i \in DOMAIN q : q[i].cont = "alloc" /\ q[i].loop = l})

IssuedBy(ls, l) == IF l \in DOMAIN ls THEN ls[l].issued ELSE 0

\* The sizes declared by the success records lg[i..j], summed.
RECURSIVE DeclaredIn(_, _, _)
DeclaredIn(lg, i, j) ==
    IF i > j THEN 0
    ELSE (IF lg[j].msg \in {"buffer", "texture"} THEN lg[j].val ELSE 0)
         + DeclaredIn(lg, i, j - 1)

\* C32: in a stress batch every one of the 6 allocate calls is issued and
\* attempted whether or not an earlier one of the batch failed; the ones
\* that succeed are appended to the tracked sequences and added to
\* allocatedMemory; the failure is caught once (one controller error record,
\* one stopTest) and the loop issues no call after the catch.
C32_BatchSurvivesFailure ==
    /\ [](\A l \in DOMAIN loops :
            LET L == loops[l]
            IN  L.mode = "stress" =>
                  /\ L.issued % (2 * StressPairs) = 0
                  /\ L.threw =>
                        /\ L.caught
                        /\ L.stops = 1
                        /\ L.issued = L.issuedAtCatch
                        /\ Cardinality({i \in (L.catchAt + 1)..L.logEnd :
                                           log[i].msg = "loop_error"}) = 1)
    /\ [][\A l \in DOMAIN loops' :
            (/\ loops'[l].mode = "stress"
             /\ loops'[l].threw
             /\ l \in DOMAIN loops => loops[l] # loops'[l])
            => LET new == (Len(log) + 1)..Len(log')
                   b == log'[loops'[l].catchAt + 1].api
                   New(msg) == {i \in new : log'[i].api = b /\ log'[i].msg = msg}
               IN  /\ Cardinality({i \in new : log'[i].msg \in AttemptMsgs})
                         = IssuedBy(loops', l) - IssuedBy(loops, l)
                           + Suspended(inits, l) - Suspended(inits', l)
                   /\ Len(bench'[b].buffers)
                         = Len(bench[b].buffers) + Cardinality(New("buffer"))
                   /\ Len(bench'[b].textures)
                         = Len(bench[b].textures) + Cardinality(New("texture"))
                   /\ bench'[b].allocatedMemory
                         = bench[b].allocatedMemory
                           + DeclaredIn(log', Len(log) + 1, Len(log'))
                   /\ bench'[b].allocatedMemory
                         = SumSizes(bench'[b].buffers)
                           + SumTextures(bench'[b].textures)]_vars

\* A stress test has ended on a batch in which an allocation succeeded after
\* another one had failed, and the backend tracks what succeeded.
C32_Witness ==
    \E l \in DOMAIN loops :
        LET L == loops[l]
        IN  /\ L.mode = "stress"
            /\ L.caught
            /\ L.issued = 2 * StressPairs
            /\ \E i, j \in (L.logStart + 1)..L.catchAt :
                  /\ i < j
                  /\ log[i].msg \in {"buffer_failed", "texture_failed"}
                  /\ log[j].msg \in {"buffer", "texture"}
            /\ bench[L.home].buffers # <<>>
            /\ bench[L.home].textures # <<>>


\* ---------------------------------------------------------------- C33

\* The last allocation or clearing record of backend b is an allocation.
NotClearedSinceAllocation(b) ==
    \E i \in DOMAIN log :
        /\ log[i].api = b
        /\ log[i].msg \in {"buffer", "texture"}
        /\ \A j \in (i + 1)..Len(log) :
              ~(log[j].api = b /\ log[j].msg = "clearing")

\* C33: at every sleep point of the one running test, gradual or stress, at
\* which its backend tracks at least one texture and clearMemory has not been
\* called since the last allocation, the backend's redraw timer is
\* scheduled, also when the backend held textures when the test started.
C33_RedrawScheduledAtSleep ==
    \A l \in DOMAIN loops :
        LET L == loops[l]
        IN  (/\ L.pc = "sleep"
             /\ LiveLoops = {l}
             /\ cur = L.home
             /\ bench[cur].isRunning
             /\ bench[cur].textures # <<>>
             /\ NotClearedSinceAllocation(cur))
            => /\ bench[cur].renderInterval # 0
               /\ TimersOf(cur) # {}


\* ---------------------------------------------------------------- C34

\* C34: at most one backend has isRunning true, and a backend with isRunning
\* true is the controller's current backend.
C34_OnlyCurrentBackendRuns ==
    /\ Cardinality({b \in Backends : bench[b].isRunning}) <= 1
    /\ \A b \in Backends : bench[b].isRunning => b = cur


\* A test runs on the current backend after switchAPI stopped a running test
\* of the other backend.
C34_Witness ==
    /\ cur # NoBackend
    /\ bench[cur].isRunning
    /\ \E b \in Backends \ {cur} : Records(b, "switch_stop") # {}


\* ---------------------------------------------------------------- C35

\* C35: a backend whose redraw timer is scheduled has isRunning true; no
\* redraw timer survives the end of a test or a backend switch.
C35_RedrawOnlyWhileRunning ==
    \A b \in Backends :
        (bench[b].renderInterval # 0 \/ TimersOf(b) # {}) => bench[b].isRunning


\* ---------------------------------------------------------------- C36

\* C36: every allocation a test invocation issues, and every run-flag and
\* threshold check it makes, targets the backend that was current when the
\* invocation started: a step of a loop attempts allocations on that backend
\* only and leaves the other backend's tracked sequences and allocatedMemory
\* unchanged, and at the expiry of its sleep the loop issues a further
\* allocation exactly when that backend is running and not above the limit.
C36_LoopStaysOnHome ==
    [][\A l \in DOMAIN loops :
          (/\ lastOp'.op \in {"wake", "initResolve"}
           /\ loops'[l] # loops[l])
          => LET home == loops[l].home
                 goesOn == /\ bench[home].isRunning
                           /\ bench[home].allocatedMemory <= MemoryLimit
             IN  /\ \A i \in (Len(log) + 1)..Len(log') :
                       log'[i].msg \in AttemptMsgs => log'[i].api = home
                 /\ \A o \in Backends \ {home} :
                       /\ bench'[o].buffers = bench[o].buffers
                       /\ bench'[o].textures = bench[o].textures
                       /\ bench'[o].allocatedMemory = bench[o].allocatedMemory
                 /\ lastOp'.op = "wake" =>
                       (loops'[l].issued > loops[l].issued <=> goesOn)]_vars


\* ---------------------------------------------------------------- C37

\* C37: every handle in a backend's tracked buffer and texture sequences was
\* created by the device/context the backend currently holds.
C37_HandlesOfLiveDevice ==
    \A b \in Backends :
        /\ \A i \in DOMAIN bench[b].buffers :
              bench[b].buffers[i].dev = bench[b].device
        /\ \A i \in DOMAIN bench[b].textures :
              bench[b].textures[i].dev = bench[b].device


\* ---------------------------------------------------------------- C38

\* C38: when initialize() calls on the WebGPU backend overlap, at most one
\* device acquisition and one renderer construction take place: the lazy
\* initialize of an allocate call, begun while the backend held no device,
\* acquires no device and builds no renderer when an overlapping call has
\* acquired one by the time it settles; and the backend's renderer always
\* uses the device the backend holds.
C38_OneAcquisitionPerOverlap ==
    /\ [][(/\ lastOp'.op = "initResolve"
           /\ Head(inits).cont = "alloc"
           /\ bench["webgpu"].device # 0)
          => /\ bench'["webgpu"].device = bench["webgpu"].device
             /\ bench'["webgpu"].renderer = bench["webgpu"].renderer]_vars
    /\ [](bench["webgpu"].renderer.dev = bench["webgpu"].device)


\* ---------------------------------------------------------------- C39

\* allocatedMemory, kept in units of 16 bytes, as the five base-1024 digits
\* of its number of bytes.
ByteDigits(n) ==
    <<(n % 64) * 16, (n \div 64) % K, (n \div (64 * K)) % K,
      (n \div (64 * K * K)) % K, 0>>

\* The metric elements as index.html ships them: '0 MB', '0', '0'.
InitialMetrics ==
    [memory |-> Text(0, <<>>, "MB"), buffers |-> 0, textures |-> 0]

\* BaseBenchmark.updateMetrics: the texts written to the three elements both
\* backends share.
UpdateMetrics(allocatedMemory, bufferCount, textureCount) ==
    [memory |-> FormatBytes(ByteDigits(allocatedMemory)),
     buffers |-> bufferCount, textures |-> textureCount]

\* The log records whose writer also called updateMetrics: a successful
\* allocation and a clearMemory.
MetricUpdates == {i \in DOMAIN log : log[i].msg \in {"buffer", "texture", "clearing"}}

\* What backend b tracked when it wrote record i: nothing at a clearing,
\* otherwise its successful allocations since its last clearing.
TrackedAt(b, i, msg) ==
    {j \in 1..i : /\ log[j].api = b
                  /\ log[j].msg = msg
                  /\ \A k \in j..i : ~(log[k].api = b /\ log[k].msg = "clearing")}

RECURSIVE SumVals(_)
SumVals(S) ==
    IF S = {} THEN 0
    ELSE LET j == CHOOSE x \in S : TRUE IN log[j].val + SumVals(S \ {j})

\* The content of the metric elements: what the last updateMetrics wrote.
Displayed ==
    IF MetricUpdates = {} THEN InitialMetrics
    ELSE LET i == CHOOSE x \in MetricUpdates : \A y \in MetricUpdates : y <= x
             b == log[i].api
         IN  UpdateMetrics(SumVals(TrackedAt(b, i, "buffer"))
                             + SumVals(TrackedAt(b, i, "texture")),
                           Cardinality(TrackedAt(b, i, "buffer")),
                           Cardinality(TrackedAt(b, i, "texture")))

\* Two byte texts read the same: equal, or both a plain zero.
SameReading(s, t) ==
    \/ s = t
    \/ /\ s.whole = 0 /\ s.decimals = <<>>
       /\ t.whole = 0 /\ t.decimals = <<>>

\* C39: whenever no allocation is in flight, the metric elements show the
\* allocatedMemory, the buffer count and the texture count of the
\* controller's current backend, also right after switchAPI selected a
\* different backend.
C39_MetricsShowCurrentBackend ==
    (/\ cur # NoBackend
     /\ \A i \in DOMAIN inits : inits[i].cont # "alloc")
    => /\ SameReading(Displayed.memory,
                      FormatBytes(ByteDigits(bench[cur].allocatedMemory)))
       /\ Displayed.buffers = Len(bench[cur].buffers)
       /\ Displayed.textures = Len(bench[cur].textures)


\* ---------------------------------------------------------------- C40

\* Loop l is the only test ever started, a gradual one on an empty backend,
\* and clearMemory has not been called.
SingleGradualTest(l) ==
    /\ DOMAIN loops = {l}
    /\ loops[l].mode = "gradual"
    /\ loops[l].startedEmpty
    /\ \A i \in DOMAIN log : log[i].msg # "clearing"

\* C40: during a single gradual test started on an empty backend with no
\* clearMemory, the tracked buffer count minus the tracked texture count is
\* 0 or 1 in every state, and the two counts are equal at every sleep point.
C40_BuffersAndTexturesAlternate ==
    \A l \in DOMAIN loops :
        SingleGradualTest(l) =>
            LET b == loops[l].home
                diff == Len(bench[b].buffers) - Len(bench[b].textures)
            IN  /\ diff \in {0, 1}
                /\ loops[l].pc = "sleep" => diff = 0

====
